---- MODULE Spec2Model ----
(***************************************************************************)
(* A model of the calleroo backend_v2 conversation engine:                 *)
(*   agents/specs.py          the agent catalog                            *)
(*   engine/planner.py        the deterministic planner                    *)
(*   engine/extract.py        slot extraction (deterministic + LLM tier)   *)
(*   app/conversation_v2.py   the turn orchestrator and idempotency cache  *)
(*                                                                         *)
(* Python strings are sequences of one-character strings, so that strip(), *)
(* lower() and the substring test `in` are computed.  A literal of the     *)
(* source that no code ever looks into (a prompt, a label, a message) is a *)
(* one-token text <<"...">>.  Python values are records [k, s]: None,      *)
(* str (s the text) or int (s the decimal digits).  A dict is a function   *)
(* whose domain is its key set.  An Optional is a sequence of length <= 1. *)
(***************************************************************************)
EXTENDS Integers, Sequences, FiniteSets, TLC

\* ---------------------------------------------------------------- bounds
\* Turns of one behaviour of the orchestrator.
MaxTurns == 2
\* Turns that may be suspended in the chat-completion call at one time.
MaxInFlight == 1
\* The clock stops at MaxTime minutes.
MaxTime == 5
\* Per-process string hash seeds (PYTHONHASHSEED) are 0..MaxSeed.
MaxSeed == 1
\* The interpreter's limit on the digits of an int/str conversion (CPython's
\* int_max_str_digits, 4300 by default), scaled down.
MaxStrDigits == 10

\* ------------------------------------------------------------------ text
WhitespaceChars == {" ", "\t", "\n"}

UpperChars == <<"A","B","C","D","E","F","G","H","I","J","K","L","M",
                "N","O","P","Q","R","S","T","U","V","W","X","Y","Z">>
LowerChars == <<"a","b","c","d","e","f","g","h","i","j","k","l","m",
                "n","o","p","q","r","s","t","u","v","w","x","y","z">>

DigitChars == {"0","1","2","3","4","5","6","7","8","9"}

\* str.lower() on one character.
LowerChar(c) ==
  IF \E i \in 1..Len(UpperChars) : UpperChars[i] = c
  THEN LowerChars[CHOOSE i \in 1..Len(UpperChars) : UpperChars[i] = c]
  ELSE c

\* str.lower()
Lower(s) == [i \in 1..Len(s) |-> LowerChar(s[i])]

RECURSIVE LStrip(_)
LStrip(s) ==
  IF s = <<>> THEN s
  ELSE IF Head(s) \in WhitespaceChars THEN LStrip(Tail(s)) ELSE s

RECURSIVE RStrip(_)
RStrip(s) ==
  IF s = <<>> THEN s
  ELSE IF s[Len(s)] \in WhitespaceChars
       THEN RStrip(SubSeq(s, 1, Len(s) - 1)) ELSE s

\* str.strip()
Strip(s) == RStrip(LStrip(s))

\* `k in s` for strings: k occurs in s as a contiguous substring.
Contains(s, k) ==
  \E i \in 0..(Len(s) - Len(k)) : SubSeq(s, i + 1, i + Len(k)) = k

\* ---------------------------------------------------------- Python values
PyNone == [k |-> "none", s |-> <<>>]
PyStr(t) == [k |-> "str", s |-> t]
PyInt(digits) == [k |-> "int", s |-> digits]

\* str(value)
PyToStr(v) == IF v.k = "none" THEN <<"None">> ELSE v.s

\* dict.get(key) and dict.get(key, default)
DictGet(d, key) == IF key \in DOMAIN d THEN d[key] ELSE PyNone
DictGetOr(d, key, default) == IF key \in DOMAIN d THEN d[key] ELSE default

\* A variant of the merge in which the left operand wins on a key collision.
DictMergeLeftWins(a, b) ==
  [x \in (DOMAIN a) \cup (DOMAIN b) |-> IF x \in DOMAIN a THEN a[x] ELSE b[x]]

\* {**a, **b}
DictMerge(a, b) ==
  [x \in (DOMAIN a) \cup (DOMAIN b) |-> IF x \in DOMAIN b THEN b[x] ELSE a[x]]

EmptyDict == [x \in {} |-> PyNone]

\* Optional values
None == <<>>
Some(x) == <<x>>

\* --------------------------------------------------------- agent catalog
\* agents/specs.py.  A SlotSpec; validators, normalizers and description
\* are read by no code of the engine and are left out.
SlotSpec(name, required, input_type, prompt, choices) ==
  [name |-> name, required |-> required, input_type |-> input_type,
   prompt |-> <<prompt>>, choices |-> choices]

\* A Choice; label and value are character sequences (extraction reads them).
Choice(label, value) == [label |-> label, value |-> value]

\* SlotSpec.get_quick_replies
get_quick_replies(slot_spec) ==
  IF slot_spec.input_type = "CHOICE" /\ slot_spec.choices # <<>>
  THEN slot_spec.choices
  ELSE IF slot_spec.input_type = "YES_NO"
       THEN <<Choice(<<"Y","e","s">>, <<"Y","E","S">>),
              Choice(<<"N","o">>, <<"N","O">>)>>
       ELSE <<>>

\* A confirm_lines template is a sequence of parts: literal text, or a
\* {slot_name} placeholder.
Lit(t) == [ph |-> FALSE, v |-> t]
Ph(name) == [ph |-> TRUE, v |-> name]

SICK_CALLER_SPEC ==
  [agent_type |-> "SICK_CALLER",
   title |-> "Call in Sick",
   description |-> "Notify your workplace that you are unwell",
   slots_in_order |-> <<
     SlotSpec("employer_name", TRUE, "TEXT",
       "Who should I call to notify? (e.g., your manager's name or company name)", <<>>),
     SlotSpec("employer_phone", TRUE, "PHONE", "What's their phone number?", <<>>),
     SlotSpec("caller_name", TRUE, "TEXT", "What name should I give them? (your name)", <<>>),
     SlotSpec("shift_date", TRUE, "DATE", "When is your shift?", <<>>),
     SlotSpec("shift_start_time", TRUE, "TIME", "What time does your shift start?", <<>>),
     SlotSpec("reason_category", TRUE, "CHOICE", "What's the reason for calling in?",
       <<Choice(<<"I","'","m"," ","s","i","c","k">>,
                <<"S","I","C","K">>),
         Choice(<<"C","a","r","i","n","g"," ","f","o","r"," ","s","o","m","e","o","n","e">>,
                <<"C","A","R","E","R">>),
         Choice(<<"M","e","n","t","a","l"," ","h","e","a","l","t","h"," ","d","a","y">>,
                <<"M","E","N","T","A","L","_","H","E","A","L","T","H">>),
         Choice(<<"M","e","d","i","c","a","l"," ","a","p","p","o","i","n","t","m","e","n","t">>,
                <<"M","E","D","I","C","A","L","_","A","P","P","O","I","N","T","M","E","N","T">>)>>),
     SlotSpec("expected_return_date", FALSE, "DATE",
       "When do you expect to return? (optional)", <<>>),
     SlotSpec("note_for_team", FALSE, "TEXT", "Any message for your team? (optional)", <<>>) >>,
   confirm_title |-> "Call In Sick",
   confirm_lines |-> <<
     <<Lit("Calling: "), Ph("employer_name")>>,
     <<Lit("Phone: "), Ph("employer_phone")>>,
     <<Lit("Your name: "), Ph("caller_name")>>,
     <<Lit("Shift: "), Ph("shift_date"), Lit(" at "), Ph("shift_start_time")>>,
     <<Lit("Reason: "), Ph("reason_category")>> >>,
   phone_source |-> "DIRECT_SLOT",
   direct_phone_slot |-> Some("employer_phone"),
   place_query_slot |-> None,
   place_area_slot |-> None]

STOCK_CHECKER_SPEC ==
  [agent_type |-> "STOCK_CHECKER",
   title |-> "Stock Check",
   description |-> "Check product availability at retailers",
   slots_in_order |-> <<
     SlotSpec("retailer_name", TRUE, "TEXT", "Which retailer should I call?", <<>>),
     SlotSpec("product_name", TRUE, "TEXT", "What product are you looking for?", <<>>),
     SlotSpec("quantity", TRUE, "NUMBER", "How many do you need?", <<>>),
     SlotSpec("store_location", TRUE, "TEXT", "Which suburb or area should I search in?", <<>>),
     SlotSpec("brand", FALSE, "TEXT", "Any specific brand? (optional)", <<>>),
     SlotSpec("model", FALSE, "TEXT", "Any specific model? (optional)", <<>>),
     SlotSpec("variant", FALSE, "TEXT", "Any specific variant (size, color)? (optional)", <<>>) >>,
   confirm_title |-> "Check Stock",
   confirm_lines |-> <<
     <<Lit("Retailer: "), Ph("retailer_name")>>,
     <<Lit("Product: "), Ph("product_name")>>,
     <<Lit("Quantity: "), Ph("quantity")>>,
     <<Lit("Location: "), Ph("store_location")>> >>,
   phone_source |-> "PLACE",
   direct_phone_slot |-> None,
   place_query_slot |-> Some("retailer_name"),
   place_area_slot |-> Some("store_location")]

RESTAURANT_RESERVATION_SPEC ==
  [agent_type |-> "RESTAURANT_RESERVATION",
   title |-> "Book Restaurant",
   description |-> "Book a table at a restaurant",
   slots_in_order |-> <<
     SlotSpec("restaurant_name", TRUE, "TEXT", "Which restaurant would you like to book?", <<>>),
     SlotSpec("party_size", TRUE, "NUMBER", "How many people?", <<>>),
     SlotSpec("date", TRUE, "DATE", "What date would you like to book for?", <<>>),
     SlotSpec("time", TRUE, "TIME", "What time would you prefer?", <<>>),
     SlotSpec("suburb_or_area", FALSE, "TEXT",
       "Which suburb or area? (optional if restaurant name is unique)", <<>>),
     SlotSpec("share_contact", FALSE, "YES_NO",
       "Should I share your contact details with the restaurant?", <<>>) >>,
   confirm_title |-> "Book Restaurant",
   confirm_lines |-> <<
     <<Lit("Restaurant: "), Ph("restaurant_name")>>,
     <<Lit("Party size: "), Ph("party_size"), Lit(" people")>>,
     <<Lit("Date: "), Ph("date")>>,
     <<Lit("Time: "), Ph("time")>> >>,
   phone_source |-> "PLACE",
   direct_phone_slot |-> None,
   place_query_slot |-> Some("restaurant_name"),
   place_area_slot |-> Some("suburb_or_area")]

CANCEL_APPOINTMENT_SPEC ==
  [agent_type |-> "CANCEL_APPOINTMENT",
   title |-> "Cancel Appointment",
   description |-> "Cancel an existing booking",
   slots_in_order |-> <<
     SlotSpec("business_name", TRUE, "TEXT",
       "What's the name of the business where you have the appointment?", <<>>),
     SlotSpec("appointment_day", TRUE, "DATE", "What day is your appointment?", <<>>),
     SlotSpec("appointment_time", TRUE, "TIME", "What time is the appointment?", <<>>),
     SlotSpec("customer_name", TRUE, "TEXT", "What name is the booking under?", <<>>),
     SlotSpec("business_location", FALSE, "TEXT",
       "Which location/branch? (optional if only one location)", <<>>),
     SlotSpec("cancel_reason", FALSE, "TEXT", "Any reason to provide? (optional)", <<>>),
     SlotSpec("reschedule_intent", FALSE, "YES_NO", "Would you like to reschedule?", <<>>) >>,
   confirm_title |-> "Cancel Appointment",
   confirm_lines |-> <<
     <<Lit("Business: "), Ph("business_name")>>,
     <<Lit("Appointment: "), Ph("appointment_day"), Lit(" at "), Ph("appointment_time")>>,
     <<Lit("Name on booking: "), Ph("customer_name")>> >>,
   phone_source |-> "PLACE",
   direct_phone_slot |-> None,
   place_query_slot |-> Some("business_name"),
   place_area_slot |-> Some("business_location")]

\* The registry AGENTS, as the set of its keys and the lookup.
AgentKeys ==
  {"SICK_CALLER", "STOCK_CHECKER", "RESTAURANT_RESERVATION", "CANCEL_APPOINTMENT"}

AGENTS(agent_type) ==
  CASE agent_type = "SICK_CALLER" -> SICK_CALLER_SPEC
    [] agent_type = "STOCK_CHECKER" -> STOCK_CHECKER_SPEC
    [] agent_type = "RESTAURANT_RESERVATION" -> RESTAURANT_RESERVATION_SPEC
    [] agent_type = "CANCEL_APPOINTMENT" -> CANCEL_APPOINTMENT_SPEC

\* get_agent_spec: [ok, spec]; ok = FALSE is the raised ValueError.
get_agent_spec(agent_type) ==
  IF agent_type \in AgentKeys
  THEN [ok |-> TRUE, spec |-> Some(AGENTS(agent_type))]
  ELSE [ok |-> FALSE, spec |-> None]

\* models.AgentType: the values a validated request's agentType can take.
AgentType ==
  {"STOCK_CHECKER", "RESTAURANT_RESERVATION", "SICK_CALLER", "CANCEL_APPOINTMENT"}

\* AgentSpec.get_slot_by_name: the first slot of that name, or None.
get_slot_by_name(spec, name) ==
  LET hits == {i \in 1..Len(spec.slots_in_order) : spec.slots_in_order[i].name = name}
  IN IF hits = {} THEN None
     ELSE Some(spec.slots_in_order[CHOOSE i \in hits : \A j \in hits : i <= j])

\* AgentSpec.get_slot_names, as a set.
SlotNames(spec) == {spec.slots_in_order[i].name : i \in 1..Len(spec.slots_in_order)}

\* ---------------------------------------------------------------- planner
\* engine/planner.py

\* A variant of is_slot_filled that tests the value's truth: 0 is not filled,
\* white space is.
is_slot_filled_truthy(slots, slot_name) ==
  LET value == DictGet(slots, slot_name)
  IN value.k # "none" /\ value.s # <<>> /\ value # [k |-> "int", s |-> <<"0">>]

\* is_slot_filled
is_slot_filled(slots, slot_name) ==
  LET value == DictGet(slots, slot_name)
  IN IF value.k = "none" THEN FALSE
     ELSE IF value.k = "str" /\ Strip(value.s) = <<>> THEN FALSE
     ELSE TRUE

\* The positions, in slots_in_order, of the required slots not filled.
MissingRequiredIdx(spec, slots) ==
  {i \in 1..Len(spec.slots_in_order) :
     spec.slots_in_order[i].required
     /\ ~is_slot_filled(slots, spec.slots_in_order[i].name)}

\* A variant of get_next_slot that also stops at an optional slot.
get_next_slot_any(spec, slots) ==
  LET missing == {i \in 1..Len(spec.slots_in_order) :
                    ~is_slot_filled(slots, spec.slots_in_order[i].name)}
  IN IF missing = {} THEN None
     ELSE Some(spec.slots_in_order[CHOOSE i \in missing : \A j \in missing : i <= j])

\* get_next_slot: the first required slot not filled, or None.
get_next_slot(spec, slots) ==
  LET missing == MissingRequiredIdx(spec, slots)
  IN IF missing = {} THEN None
     ELSE Some(spec.slots_in_order[CHOOSE i \in missing : \A j \in missing : i <= j])

RECURSIVE MissingFrom(_, _, _)
MissingFrom(spec, slots, i) ==
  IF i > Len(spec.slots_in_order) THEN <<>>
  ELSE LET slot_spec == spec.slots_in_order[i]
       IN (IF slot_spec.required /\ ~is_slot_filled(slots, slot_spec.name)
           THEN <<slot_spec.name>> ELSE <<>>) \o MissingFrom(spec, slots, i + 1)

\* get_missing_required_slots: the names, in declared order.
get_missing_required_slots(spec, slots) == MissingFrom(spec, slots, 1)

FIND_PLACE_KEYWORDS ==
  <<<<"d","o","n","'","t"," ","k","n","o","w">>,
    <<"d","o","n","t"," ","k","n","o","w">>,
    <<"n","o","t"," ","s","u","r","e">>,
    <<"f","i","n","d"," ","i","t">>,
    <<"l","o","o","k"," ","i","t"," ","u","p">>,
    <<"s","e","a","r","c","h"," ","f","o","r"," ","i","t">>,
    <<"i"," ","d","o","n","'","t"," ","h","a","v","e">>,
    <<"i"," ","d","o","n","t"," ","h","a","v","e">>,
    <<"c","a","n"," ","y","o","u"," ","f","i","n","d">>,
    <<"h","e","l","p"," ","m","e"," ","f","i","n","d">>,
    <<"f","i","n","d"," ","t","h","e"," ","n","u","m","b","e","r">>,
    <<"l","o","o","k"," ","u","p"," ","t","h","e"," ","n","u","m","b","e","r">>,
    <<"s","e","a","r","c","h">>,
    <<"f","i","n","d">>>>

\* A variant of should_trigger_find_place without the test on the slot's type.
should_trigger_find_place_any_type(user_message, current_slot) ==
  IF current_slot = None THEN FALSE
  ELSE \E i \in 1..Len(FIND_PLACE_KEYWORDS) :
          Contains(Lower(user_message), FIND_PLACE_KEYWORDS[i])

\* A variant of should_trigger_find_place that forgets lower().
should_trigger_find_place_cased(user_message, current_slot) ==
  IF current_slot = None THEN FALSE
  ELSE IF current_slot[1].input_type # "PHONE" THEN FALSE
  ELSE \E i \in 1..Len(FIND_PLACE_KEYWORDS) :
          Contains(user_message, FIND_PLACE_KEYWORDS[i])

\* should_trigger_find_place; current_slot is an Optional SlotSpec.
should_trigger_find_place(user_message, current_slot) ==
  IF current_slot = None THEN FALSE
  ELSE IF current_slot[1].input_type # "PHONE" THEN FALSE
  ELSE LET message_lower == Lower(user_message)
       IN \E i \in 1..Len(FIND_PLACE_KEYWORDS) :
             Contains(message_lower, FIND_PLACE_KEYWORDS[i])

\* build_question
build_question(slot_spec) ==
  [slot_name |-> slot_spec.name,
   input_type |-> slot_spec.input_type,
   prompt |-> slot_spec.prompt,
   quick_replies |-> get_quick_replies(slot_spec)]

\* format_slot_value_for_display
format_slot_value_for_display(slot_name, value) ==
  IF value.k = "none" THEN <<"(not provided)">>
  ELSE LET value_str == PyToStr(value)
       IN IF slot_name = "reason_category" /\ value_str = <<"S","I","C","K">>
            THEN <<"I'm sick">>
          ELSE IF slot_name = "reason_category" /\ value_str = <<"C","A","R","E","R">>
            THEN <<"Caring for someone">>
          ELSE IF slot_name = "reason_category"
                  /\ value_str = <<"M","E","N","T","A","L","_","H","E","A","L","T","H">>
            THEN <<"Mental health day">>
          ELSE IF slot_name = "reason_category"
                  /\ value_str = <<"M","E","D","I","C","A","L","_",
                                   "A","P","P","O","I","N","T","M","E","N","T">>
            THEN <<"Medical appointment">>
          ELSE value_str

RECURSIVE FormatLine(_, _)
FormatLine(parts, slots) ==
  IF parts = <<>> THEN <<>>
  ELSE (IF Head(parts).ph
        THEN format_slot_value_for_display(
               Head(parts).v, DictGetOr(slots, Head(parts).v, PyStr(<<"(not provided)">>)))
        ELSE <<Head(parts).v>>) \o FormatLine(Tail(parts), slots)

RECURSIVE JoinLines(_)
JoinLines(lines) ==
  IF lines = <<>> THEN <<>>
  ELSE IF Len(lines) = 1 THEN lines[1]
  ELSE lines[1] \o <<"|">> \o JoinLines(Tail(lines))

\* hash(card_content) & 0xFFFFFFFF in hex: a function of the process's string
\* hash seed and of the content; kept as that pair, not as a number.
CardHash(seed, card_content) == [seed |-> seed, content |-> card_content]

\* build_confirmation_card, in a process whose string hash seed is `seed`.
build_confirmation_card(spec, slots, seed) ==
  LET formatted_lines ==
        [i \in 1..Len(spec.confirm_lines) |-> FormatLine(spec.confirm_lines[i], slots)]
      card_content == <<spec.confirm_title, "|">> \o JoinLines(formatted_lines)
  IN [title |-> spec.confirm_title,
      lines |-> formatted_lines,
      confirm_label |-> "Yes, that's correct",
      reject_label |-> "No, let me change something",
      card_id |-> CardHash(seed, card_content)]

\* build_place_search_params
build_place_search_params(spec, slots) ==
  LET query == IF spec.place_query_slot # None
               THEN PyToStr(DictGetOr(slots, spec.place_query_slot[1], PyStr(<<"business">>)))
               ELSE <<"business">>
      area == IF spec.place_area_slot # None
              THEN PyToStr(DictGetOr(slots, spec.place_area_slot[1], PyStr(<<"Australia">>)))
              ELSE <<"Australia">>
  IN [query |-> query, area |-> area]

PlannerResult(next_action, question, confirmation_card, place_search_params, msg) ==
  [next_action |-> next_action, question |-> question,
   confirmation_card |-> confirmation_card,
   place_search_params |-> place_search_params, assistant_message |-> msg]

\* A variant of rule 1 that compares with the wrong spelling.
RuleConfirmLowerCase(client_action) == client_action = "confirm"

\* decide_next_action rule 1: client_action CONFIRM.
RuleConfirm(client_action) == client_action = "CONFIRM"

\* decide_next_action rule 2: client_action REJECT.
RuleReject(client_action) == client_action = "REJECT"

\* The result of rules 4 and 5.
CompletenessResult(spec, slots, seed) ==
  LET next_slot == get_next_slot(spec, slots)
  IN IF next_slot = None
     THEN PlannerResult("CONFIRM", None, Some(build_confirmation_card(spec, slots, seed)),
                        None, <<"Let me confirm the details:">>)
     ELSE PlannerResult("ASK_QUESTION", Some(build_question(next_slot[1])), None, None,
                        next_slot[1].prompt)

\* A variant of rule 2 that falls through to the completeness rules when
\* nothing is missing.
RejectResultFallsThrough(spec, slots) ==
  LET next_slot == get_next_slot(spec, slots)
  IN IF next_slot # None
     THEN PlannerResult("ASK_QUESTION", Some(build_question(next_slot[1])), None, None,
                        <<"No problem! ">> \o next_slot[1].prompt)
     ELSE CompletenessResult(spec, slots, 0)

\* Variant of rule 2 that never attaches the question to its result.
RejectResultNoQuestion(spec, slots) ==
  LET next_slot == get_next_slot(spec, slots)
  IN IF next_slot # None
     THEN PlannerResult("ASK_QUESTION", None, None, None,
                        <<"No problem! ">> \o next_slot[1].prompt)
     ELSE PlannerResult("ASK_QUESTION", None, None, None,
                        <<"What would you like to change?">>)

\* The result of rule 2.
RejectResult(spec, slots) ==
  LET next_slot == get_next_slot(spec, slots)
  IN IF next_slot # None
     THEN PlannerResult("ASK_QUESTION", Some(build_question(next_slot[1])), None, None,
                        <<"No problem! ">> \o next_slot[1].prompt)
     ELSE PlannerResult("ASK_QUESTION", None, None, None,
                        <<"What would you like to change?">>)

\* decide_next_action.  client_action and current_question_slot are
\* Optional strings; seed is the process's string hash seed.
decide_next_action(spec, slots, client_action, user_message, current_question_slot, seed) ==
  IF client_action # None /\ RuleConfirm(client_action[1])
  THEN PlannerResult("COMPLETE", None, None, None, <<"Great! I'll place the call now.">>)
  ELSE IF client_action # None /\ RuleReject(client_action[1])
  THEN RejectResult(spec, slots)
  ELSE LET current_slot_spec ==
             IF current_question_slot # None /\ current_question_slot[1] # ""
             THEN get_slot_by_name(spec, current_question_slot[1])
             ELSE None
       IN IF should_trigger_find_place(user_message, current_slot_spec)
          THEN PlannerResult("FIND_PLACE", None, None,
                             Some(build_place_search_params(spec, slots)),
                             <<"I'll help you find the number.">>)
          ELSE CompletenessResult(spec, slots, seed)

\* ------------------------------------------------------------- extraction
\* engine/extract.py

\* str.startswith
StartsWith(s, p) == Len(p) <= Len(s) /\ SubSeq(s, 1, Len(p)) = p

\* str.replace(old, new), old not empty
RECURSIVE Replace(_, _, _)
Replace(s, old, new) ==
  IF Len(s) < Len(old) THEN s
  ELSE IF SubSeq(s, 1, Len(old)) = old
       THEN new \o Replace(SubSeq(s, Len(old) + 1, Len(s)), old, new)
       ELSE <<Head(s)>> \o Replace(Tail(s), old, new)

IsDigit(c) == c \in DigitChars

\* The value of a string of decimal digits.
RECURSIVE ToNat(_)
ToNat(d) ==
  IF d = <<>> THEN 0
  ELSE 10 * ToNat(SubSeq(d, 1, Len(d) - 1))
       + (CHOOSE n \in 0..9 : <<"0","1","2","3","4","5","6","7","8","9">>[n + 1] = d[Len(d)])

\* The decimal digits of str(int(d)): no leading zeros.
RECURSIVE CanonDigits(_)
CanonDigits(d) ==
  IF Len(d) > 1 /\ Head(d) = "0" THEN CanonDigits(Tail(d)) ELSE d

\* A number below 100 with two digits ("%02d").
TwoDigits(n) ==
  LET ds == <<"0","1","2","3","4","5","6","7","8","9">>
  IN <<ds[(n \div 10) + 1], ds[(n % 10) + 1]>>

\* ExtractionResult
ExtractionResult(extracted_data, llm_used, llm_model, confidence) ==
  [extracted_data |-> extracted_data, llm_used |-> llm_used,
   llm_model |-> llm_model, confidence |-> confidence]

\* One iteration of the loop of extract_choice_value: the three tests on a choice.
ChoiceMatches(message_lower, choice) ==
  LET label_lower == Lower(choice.label)
      clean_label == Replace(Replace(label_lower, <<"i","'","m"," ">>, <<>>), <<"i"," ","a","m"," ">>, <<>>)
  IN \/ message_lower = Lower(choice.value)
     \/ message_lower = label_lower
     \/ Contains(message_lower, clean_label)
     \/ Contains(label_lower, message_lower)

\* extract_choice_value: the value of the first declared choice that matches.
extract_choice_value(user_message, slot_spec) ==
  IF slot_spec.choices = <<>> THEN None
  ELSE LET message_lower == Strip(Lower(user_message))
           hits == {i \in 1..Len(slot_spec.choices) :
                      ChoiceMatches(message_lower, slot_spec.choices[i])}
       IN IF hits = {} THEN None
          ELSE Some(slot_spec.choices[CHOOSE i \in hits : \A j \in hits : i <= j].value)

yes_patterns ==
  <<<<"y","e","s">>, <<"y","e","a","h">>, <<"y","e","p">>, <<"s","u","r","e">>, <<"o","k">>, <<"o","k","a","y">>, <<"y","u","p">>,
    <<"a","b","s","o","l","u","t","e","l","y">>, <<"d","e","f","i","n","i","t","e","l","y">>, <<"p","l","e","a","s","e">>, <<"y">>>>
no_patterns ==
  <<<<"n","o">>, <<"n","o","p","e">>, <<"n","a","h">>, <<"n","o","t">>, <<"d","o","n","'","t">>, <<"d","o","n","t">>, <<"n">>>>

PatternHit(message_lower, patterns) ==
  \E i \in 1..Len(patterns) :
     \/ message_lower = patterns[i]
     \/ StartsWith(message_lower, patterns[i] \o <<" ">>)

\* extract_yes_no_value: the yes patterns are tried before the no patterns.
extract_yes_no_value(user_message) ==
  LET message_lower == Strip(Lower(user_message))
  IN IF PatternHit(message_lower, yes_patterns) THEN Some(<<"Y","E","S">>)
     ELSE IF PatternHit(message_lower, no_patterns) THEN Some(<<"N","O">>)
     ELSE None

\* normalize_phone_number
normalize_phone_number(phone) ==
  LET has_plus == StartsWith(Strip(phone), <<"+">>)
      digits == SelectSeq(phone, IsDigit)
  IN IF digits = <<>> THEN None
     ELSE IF Len(digits) = 10 /\ StartsWith(digits, <<"0">>)
       THEN Some(<<"+","6","1">> \o Tail(digits))
     ELSE IF Len(digits) = 9 /\ StartsWith(digits, <<"4">>)
       THEN Some(<<"+","6","1">> \o digits)
     ELSE IF Len(digits) = 11 /\ StartsWith(digits, <<"6","1">>)
       THEN Some(<<"+">> \o digits)
     ELSE IF Len(digits) >= 10 /\ has_plus
       THEN Some(<<"+">> \o digits)
     ELSE IF Len(digits) >= 10
             /\ (StartsWith(digits, <<"1">>) \/ StartsWith(digits, <<"4","4">>)
                 \/ StartsWith(digits, <<"6","1">>))
       THEN Some(<<"+">> \o digits)
     ELSE IF Len(digits) >= 8 THEN Some(Strip(phone))
     ELSE None

\* Splitting a string at every occurrence of a separator character.
RECURSIVE SplitOn(_, _)
SplitOn(s, sep) ==
  LET cut == {i \in 1..Len(s) : s[i] = sep}
  IN IF cut = {} THEN <<s>>
     ELSE LET i == CHOOSE x \in cut : \A y \in cut : x <= y
          IN <<SubSeq(s, 1, i - 1)>> \o SplitOn(SubSeq(s, i + 1, Len(s)), sep)

AllDigits(p) == p # <<>> /\ \A i \in 1..Len(p) : IsDigit(p[i])

IsLeap(y) == (y % 4 = 0 /\ y % 100 # 0) \/ y % 400 = 0
DaysIn(y, m) ==
  IF m = 2 THEN (IF IsLeap(y) THEN 29 ELSE 28)
  ELSE IF m \in {4, 6, 9, 11} THEN 30 ELSE 31

\* date.today() and the day after it, in ISO format, and the current year:
\* values of the wall clock, kept as tokens.
TodayIso == <<"<today>">>
TomorrowIso == <<"<tomorrow>">>
ThisYear == <<"<this year>">>

\* datetime.strptime for the numeric formats, then the year-1900 rule and
\* isoformat().  y, m, d are the three fields; yearDigits is 4 (%Y) or 2 (%y).
NumericDate(y, m, d, yearDigits) ==
  IF AllDigits(y) /\ Len(y) = yearDigits /\ AllDigits(m) /\ Len(m) <= 2
     /\ AllDigits(d) /\ Len(d) <= 2
  THEN LET yv == IF yearDigits = 4 THEN ToNat(y)
                 ELSE IF ToNat(y) >= 69 THEN 1900 + ToNat(y) ELSE 2000 + ToNat(y)
           ytext == IF yearDigits = 4 THEN y
                    ELSE (IF ToNat(y) >= 69 THEN <<"1","9">> ELSE <<"2","0">>) \o y
           mv == ToNat(m)
           dv == ToNat(d)
       IN IF yv >= 1 /\ mv \in 1..12 /\ dv >= 1 /\ dv <= DaysIn(yv, mv)
          THEN Some((IF yv = 1900 THEN ThisYear ELSE ytext)
                    \o <<"-">> \o TwoDigits(mv) \o <<"-">> \o TwoDigits(dv))
          ELSE None
  ELSE None

\* parse_date.  The relative words and the five numeric formats (%Y-%m-%d,
\* %d/%m/%Y, %d-%m-%Y, %d/%m/%y, %d-%m-%y) are computed; the eight formats
\* with a month name are not, and no utterance of the model has one.
parse_date(date_str) ==
  LET date_lower == Strip(Lower(date_str))
      text == Strip(date_str)
      dash == SplitOn(text, "-")
      slash == SplitOn(text, "/")
  IN IF date_lower \in {<<"t","o","d","a","y">>, <<"n","o","w">>} THEN Some(TodayIso)
     ELSE IF date_lower \in {<<"t","o","m","o","r","r","o","w">>, <<"t","m","r","w">>, <<"t","m","r">>} THEN Some(TomorrowIso)
     ELSE IF Len(dash) = 3 /\ NumericDate(dash[1], dash[2], dash[3], 4) # None
       THEN NumericDate(dash[1], dash[2], dash[3], 4)
     ELSE IF Len(slash) = 3 /\ NumericDate(slash[3], slash[2], slash[1], 4) # None
       THEN NumericDate(slash[3], slash[2], slash[1], 4)
     ELSE IF Len(dash) = 3 /\ NumericDate(dash[3], dash[2], dash[1], 4) # None
       THEN NumericDate(dash[3], dash[2], dash[1], 4)
     ELSE IF Len(slash) = 3 /\ NumericDate(slash[3], slash[2], slash[1], 2) # None
       THEN NumericDate(slash[3], slash[2], slash[1], 2)
     ELSE IF Len(dash) = 3 /\ NumericDate(dash[3], dash[2], dash[1], 2) # None
       THEN NumericDate(dash[3], dash[2], dash[1], 2)
     ELSE None

\* re.sub(r'\s+', ' ', s)
RECURSIVE CollapseSpaces(_)
CollapseSpaces(s) ==
  IF s = <<>> THEN s
  ELSE IF Head(s) \in WhitespaceChars
       THEN <<" ">> \o CollapseSpaces(LStrip(s))
       ELSE <<Head(s)>> \o CollapseSpaces(Tail(s))

\* A field of at most two digits with a value in lo..hi.
FieldIn(p, lo, hi) == AllDigits(p) /\ Len(p) <= 2 /\ ToNat(p) >= lo /\ ToNat(p) <= hi

\* The hour of a 12-hour clock in the 24-hour clock.
Hour24(h, period) == (h % 12) + (IF period = <<"p","m">> THEN 12 ELSE 0)

\* parse_time: the strptime formats on the normalized text, then the
\* hour-only pattern ^(\d{1,2})\s*(am|pm)?$ on the lowered text.
parse_time(time_str) ==
  LET time_lower == Strip(Lower(time_str))
      normalized ==
        Strip(CollapseSpaces(
          Replace(Replace(Replace(time_lower, <<".">>, <<":">>),
                          <<"a","m">>, <<" ","a","m">>), <<"p","m">>, <<" ","p","m">>)))
      words == SplitOn(normalized, " ")
      hm == SplitOn(words[1], ":")
      period == IF Len(time_lower) >= 2
                   /\ SubSeq(time_lower, Len(time_lower) - 1, Len(time_lower))
                        \in {<<"a","m">>, <<"p","m">>}
                THEN SubSeq(time_lower, Len(time_lower) - 1, Len(time_lower))
                ELSE <<>>
      hourText == Strip(SubSeq(time_lower, 1, Len(time_lower) - Len(period)))
      hour == IF period = <<"p","m">> /\ ToNat(hourText) < 12 THEN ToNat(hourText) + 12
              ELSE IF period = <<"a","m">> /\ ToNat(hourText) = 12 THEN 0
              ELSE ToNat(hourText)
  IN IF Len(words) = 1 /\ Len(hm) \in {2, 3} /\ FieldIn(hm[1], 0, 23)
        /\ FieldIn(hm[2], 0, 59) /\ (Len(hm) = 3 => FieldIn(hm[3], 0, 61))
       THEN Some(TwoDigits(ToNat(hm[1])) \o <<":">> \o TwoDigits(ToNat(hm[2])))
     ELSE IF Len(words) = 2 /\ words[2] \in {<<"a","m">>, <<"p","m">>} /\ Len(hm) = 2
             /\ FieldIn(hm[1], 1, 12) /\ FieldIn(hm[2], 0, 59)
       THEN Some(TwoDigits(Hour24(ToNat(hm[1]), words[2])) \o <<":">>
                 \o TwoDigits(ToNat(hm[2])))
     ELSE IF Len(words) = 2 /\ words[2] \in {<<"a","m">>, <<"p","m">>} /\ Len(hm) = 1
             /\ FieldIn(hm[1], 1, 12)
       THEN Some(TwoDigits(Hour24(ToNat(hm[1]), words[2])) \o <<":","0","0">>)
     ELSE IF AllDigits(hourText) /\ Len(hourText) <= 2 /\ hour <= 23
       THEN Some(TwoDigits(hour) \o <<":","0","0">>)
     ELSE None

word_to_num ==
  <<[w |-> <<"z","e","r","o">>, n |-> <<"0">>], [w |-> <<"o","n","e">>, n |-> <<"1">>],
    [w |-> <<"t","w","o">>, n |-> <<"2">>], [w |-> <<"t","h","r","e","e">>, n |-> <<"3">>],
    [w |-> <<"f","o","u","r">>, n |-> <<"4">>], [w |-> <<"f","i","v","e">>, n |-> <<"5">>],
    [w |-> <<"s","i","x">>, n |-> <<"6">>], [w |-> <<"s","e","v","e","n">>, n |-> <<"7">>],
    [w |-> <<"e","i","g","h","t">>, n |-> <<"8">>], [w |-> <<"n","i","n","e">>, n |-> <<"9">>],
    [w |-> <<"t","e","n">>, n |-> <<"1","0">>], [w |-> <<"e","l","e","v","e","n">>, n |-> <<"1","1">>],
    [w |-> <<"t","w","e","l","v","e">>, n |-> <<"1","2">>]>>

\* re.search(r'\d+', s).group(): the first maximal run of digits, or <<>>.
FirstDigitRun(s) ==
  LET at == {i \in 1..Len(s) : IsDigit(s[i])}
  IN IF at = {} THEN <<>>
     ELSE LET a == CHOOSE x \in at : \A y \in at : x <= y
              b == CHOOSE x \in a..Len(s) :
                     /\ \A y \in a..x : IsDigit(s[y])
                     /\ (x = Len(s) \/ ~IsDigit(s[x + 1]))
          IN SubSeq(s, a, b)

\* int(text) of a digit string raises ValueError when the interpreter limits
\* the length of int/str conversions and the string is longer than the limit.
IntRaises(digits, int_limit) == int_limit /\ Len(digits) > MaxStrDigits

\* parse_number: [raised, value].  raised: int() raised ValueError.
parse_number(num_str, int_limit) ==
  LET num_lower == Strip(Lower(num_str))
      words == {i \in 1..Len(word_to_num) : word_to_num[i].w = num_lower}
      run == FirstDigitRun(num_str)
  IN IF words # {}
       THEN [raised |-> FALSE,
             value |-> Some(PyInt(word_to_num[CHOOSE i \in words : TRUE].n))]
     ELSE IF run = <<>> THEN [raised |-> FALSE, value |-> None]
     ELSE IF IntRaises(run, int_limit) THEN [raised |-> TRUE, value |-> None]
     ELSE [raised |-> FALSE, value |-> Some(PyInt(CanonDigits(run)))]

\* An Optional text as an Optional str value.
StrValue(opt) == IF opt = None THEN None ELSE Some(PyStr(opt[1]))

\* extract_slot_deterministic: [raised, value]; success is value # None.
extract_slot_deterministic(user_message, slot_spec, int_limit) ==
  LET input_type == slot_spec.input_type
  IN IF input_type = "CHOICE"
       THEN [raised |-> FALSE, value |-> StrValue(extract_choice_value(user_message, slot_spec))]
     ELSE IF input_type = "YES_NO"
       THEN [raised |-> FALSE, value |-> StrValue(extract_yes_no_value(user_message))]
     ELSE IF input_type = "PHONE"
       THEN [raised |-> FALSE, value |-> StrValue(normalize_phone_number(user_message))]
     ELSE IF input_type = "DATE"
       THEN [raised |-> FALSE, value |-> StrValue(parse_date(user_message))]
     ELSE IF input_type = "TIME"
       THEN [raised |-> FALSE, value |-> StrValue(parse_time(user_message))]
     ELSE IF input_type = "NUMBER"
       THEN parse_number(user_message, int_limit)
     ELSE IF input_type = "TEXT"
       THEN [raised |-> FALSE,
             value |-> IF Strip(user_message) # <<>>
                       THEN Some(PyStr(Strip(user_message))) ELSE None]
     ELSE [raised |-> FALSE, value |-> None]

\* The default model of extract_slots and process_conversation_v2.
LLM_MODEL == "gpt-4o-mini"

\* What the chat-completion call gives back.  kind is
\*   "error"       the call raised,
\*   "not_json"    the content is not JSON,
\*   "not_object"  the content is JSON but not an object,
\*   "no_key"      an object without the key extractedData,
\*   "bad_data"    extractedData is not an object,
\*   "data"        extractedData is the object `data`.
LlmReply(kind, data) == [kind |-> kind, data |-> data]

\* A variant of the filter of extract_with_llm that keeps undeclared names.
LlmSanitizeAnyKey(spec, extracted) ==
  LET keep == {x \in DOMAIN extracted :
                 /\ extracted[x].k # "none"
                 /\ extracted[x] # PyStr(<<>>)}
  IN [x \in keep |-> extracted[x]]

\* The sanitizing filter of extract_with_llm.
LlmSanitize(spec, extracted) ==
  LET keep == {x \in DOMAIN extracted :
                 /\ x \in SlotNames(spec)
                 /\ extracted[x].k # "none"
                 /\ extracted[x] # PyStr(<<>>)}
  IN [x \in keep |-> extracted[x]]

\* extract_with_llm, given the reply of the call it awaits.
extract_with_llm(spec, reply, model) ==
  IF reply.kind \in {"error", "not_json", "not_object", "bad_data"}
  THEN ExtractionResult(EmptyDict, TRUE, Some(model), "LOW")
  ELSE IF reply.kind = "no_key"
  THEN ExtractionResult(EmptyDict, TRUE, Some(model), "MEDIUM")
  ELSE ExtractionResult(LlmSanitize(spec, reply.data), TRUE, Some(model), "MEDIUM")

\* `if current_slot:` / `if request.idempotencyKey:` on an Optional string.
Truthy(opt) == opt # None /\ opt[1] # ""

\* A variant of extract_slots that consults the chat-completion call whenever
\* a client is passed, whatever the deterministic tier found.
extract_slots_begin_llm_first(spec, user_message, current_slot, openai_client, int_limit) ==
  LET empty == ExtractionResult(EmptyDict, FALSE, None, "HIGH")
      slot_spec == IF Truthy(current_slot)
                   THEN get_slot_by_name(spec, current_slot[1]) ELSE None
      det == IF slot_spec # None
             THEN extract_slot_deterministic(user_message, slot_spec[1], int_limit)
             ELSE [raised |-> FALSE, value |-> None]
  IN IF Strip(user_message) = <<>> THEN [status |-> "done", result |-> empty]
     ELSE IF det.raised THEN [status |-> "raise", result |-> empty]
     ELSE IF openai_client THEN [status |-> "await", result |-> empty]
     ELSE IF det.value # None
       THEN [status |-> "done",
             result |-> ExtractionResult([x \in {current_slot[1]} |-> det.value[1]],
                                         FALSE, None, "HIGH")]
     ELSE [status |-> "done", result |-> empty]

\* extract_slots up to its await: status is "done" (result holds), "raise"
\* (ValueError out of the deterministic tier) or "await" (the chat-completion
\* call is in flight).  openai_client: whether a client was passed.
extract_slots_begin(spec, user_message, current_slot, openai_client, int_limit) ==
  LET empty == ExtractionResult(EmptyDict, FALSE, None, "HIGH")
      slot_spec == IF Truthy(current_slot)
                   THEN get_slot_by_name(spec, current_slot[1]) ELSE None
      det == IF slot_spec # None
             THEN extract_slot_deterministic(user_message, slot_spec[1], int_limit)
             ELSE [raised |-> FALSE, value |-> None]
  IN IF Strip(user_message) = <<>> THEN [status |-> "done", result |-> empty]
     ELSE IF det.raised THEN [status |-> "raise", result |-> empty]
     ELSE IF det.value # None
       THEN [status |-> "done",
             result |-> ExtractionResult([x \in {current_slot[1]} |-> det.value[1]],
                                         FALSE, None, "HIGH")]
     ELSE IF openai_client THEN [status |-> "await", result |-> empty]
     ELSE [status |-> "done", result |-> empty]

\* extract_slots after the await: the merge of the (empty) deterministic
\* result over the LLM result; confidence is taken from the LLM result only
\* when the merged data is empty.
extract_slots_end(llm_result) ==
  LET merged == DictMerge(llm_result.extracted_data, EmptyDict)
  IN ExtractionResult(merged, llm_result.llm_used, llm_result.llm_model,
                      IF merged = EmptyDict THEN llm_result.confidence ELSE "HIGH")

\* ----------------------------------------------------------- orchestrator
\* app/conversation_v2.py.  Time is counted in minutes.

\* _IDEMPOTENCY_TTL, and the size above which a store prunes the cache.
IDEMPOTENCY_TTL == 5
IDEMPOTENCY_MAX_ENTRIES == 1000

\* _V2Metrics.__init__
V2Metrics ==
  [total_requests |-> 0, llm_calls |-> 0, deterministic_only |-> 0,
   fallback_used |-> 0, idempotency_hits |-> 0, confirm_actions |-> 0,
   reject_actions |-> 0, complete_actions |-> 0, find_place_actions |-> 0,
   ask_question_actions |-> 0, consecutive_fallbacks |-> 0,
   max_consecutive_fallbacks |-> 0]

Bump(m, field) == [m EXCEPT ![field] = @ + 1]

\* _V2Metrics.record_request
record_request(m, llm_used, next_action, fallback) ==
  LET m1 == Bump(m, "total_requests")
      m2 == IF llm_used THEN Bump(m1, "llm_calls") ELSE Bump(m1, "deterministic_only")
      m3 == IF fallback
            THEN LET f == Bump(Bump(m2, "fallback_used"), "consecutive_fallbacks")
                 IN [f EXCEPT !.max_consecutive_fallbacks =
                       IF @ >= f.consecutive_fallbacks THEN @ ELSE f.consecutive_fallbacks]
            ELSE [m2 EXCEPT !.consecutive_fallbacks = 0]
  IN IF next_action = "CONFIRM" THEN Bump(m3, "confirm_actions")
     ELSE IF next_action = "COMPLETE" THEN Bump(m3, "complete_actions")
     ELSE IF next_action = "FIND_PLACE" THEN Bump(m3, "find_place_actions")
     ELSE IF next_action = "ASK_QUESTION" THEN Bump(m3, "ask_question_actions")
     ELSE IF next_action = "REJECT" THEN Bump(m3, "reject_actions")
     ELSE m3

\* _V2Metrics.record_idempotency_hit
record_idempotency_hit(m) == Bump(m, "idempotency_hits")

\* A variant of the test in which an entry is still valid at the TTL.
StillValidAtTtl(now_, timestamp) == now_ - timestamp <= IDEMPOTENCY_TTL

\* The test of _get_idempotent_response on the age of an entry.
StillValid(now_, timestamp) == now_ - timestamp < IDEMPOTENCY_TTL

\* _get_idempotent_response: the cached response, if any, and the cache
\* after the call (an expired entry is deleted).
get_idempotent_response(store, key, now_) ==
  IF key \in DOMAIN store
  THEN IF StillValid(now_, store[key].timestamp)
       THEN [response |-> Some(store[key].response), store |-> store]
       ELSE [response |-> None,
             store |-> [x \in (DOMAIN store) \ {key} |-> store[x]]]
  ELSE [response |-> None, store |-> store]

\* _store_idempotent_response
store_idempotent_response(store, key, response, now_) ==
  LET entry == [response |-> response, timestamp |-> now_]
      s1 == [x \in (DOMAIN store) \cup {key} |-> IF x = key THEN entry ELSE store[x]]
      cutoff == now_ - IDEMPOTENCY_TTL
  IN IF Cardinality(DOMAIN s1) > IDEMPOTENCY_MAX_ENTRIES
     THEN [x \in {y \in DOMAIN s1 : ~(s1[y].timestamp < cutoff)} |-> s1[x]]
     ELSE s1

\* _build_agent_meta
build_agent_meta(spec) ==
  [phoneSource |-> spec.phone_source, directPhoneSlot |-> spec.direct_phone_slot,
   title |-> spec.title, description |-> spec.description]

\* _planner_to_api_question, on an Optional planner Question.  An input type
\* outside the map becomes TEXT; empty quick replies become None.
planner_to_api_question(planner_question) ==
  IF planner_question = None THEN None
  ELSE LET q == planner_question[1]
       IN Some([text |-> q.prompt,
                field |-> q.slot_name,
                inputType |-> IF q.input_type \in {"TEXT", "PHONE", "DATE", "TIME",
                                                   "NUMBER", "CHOICE", "YES_NO"}
                              THEN q.input_type ELSE "TEXT",
                choices |-> q.quick_replies,
                quickReplies |-> q.quick_replies,
                optional |-> FALSE])

\* _planner_to_api_confirmation_card
planner_to_api_confirmation_card(planner_card) ==
  IF planner_card = None THEN None
  ELSE Some([title |-> planner_card[1].title,
             lines |-> planner_card[1].lines,
             confirmLabel |-> planner_card[1].confirm_label,
             rejectLabel |-> planner_card[1].reject_label,
             cardId |-> planner_card[1].card_id])

\* _planner_to_api_place_search_params
planner_to_api_place_search_params(planner_params) ==
  IF planner_params = None THEN None
  ELSE Some([query |-> planner_params[1].query, area |-> planner_params[1].area,
             country |-> "AU"])

\* ConversationRequest
ConversationRequest(agentType, userMessage, slots, clientAction, idempotencyKey, currentQuestionSlotName, debug) ==
  [conversationId |-> "c1", agentType |-> agentType, userMessage |-> userMessage,
   slots |-> slots, clientAction |-> clientAction, idempotencyKey |-> idempotencyKey,
   currentQuestionSlotName |-> currentQuestionSlotName, debug |-> debug]

\* ConversationResponse of the v2 engine
ConversationResponse(assistantMessage, nextAction, question, extractedData, confidence, confirmationCard, placeSearchParams, agentMeta, aiCallMade, aiModel, debugPayload) ==
  [assistantMessage |-> assistantMessage, nextAction |-> nextAction,
   question |-> question, extractedData |-> extractedData, confidence |-> confidence,
   confirmationCard |-> confirmationCard, placeSearchParams |-> placeSearchParams,
   agentMeta |-> agentMeta, aiCallMade |-> aiCallMade, aiModel |-> aiModel,
   engineVersion |-> "v2", debugPayload |-> debugPayload]

\* How a turn ended.  kind is "response" or "http_error" (HTTPException 400,
\* response None).  path names the branch that produced the response:
\* "cached", "confirm", "reject", "normal", "fallback" or "error".  The three
\* flags say whether the turn called extract_slots, the chat-completion
\* endpoint, and decide_next_action.
Outcome(kind, response, path, extract_called, llm_called, planner_called) ==
  [kind |-> kind, response |-> response, path |-> path,
   extract_called |-> extract_called, llm_called |-> llm_called,
   planner_called |-> planner_called]

\* The result of a stretch of the handler: the outcome, the cache and the
\* metrics it leaves.  status "await": the handler is suspended in the
\* chat-completion call and has no outcome yet.
HandlerResult(status, outcome, store, metrics_) ==
  [status |-> status, outcome |-> outcome, store |-> store, metrics |-> metrics_]

\* The ultimate fallback of _create_fallback_response (its except branch).
UltimateFallback(request) ==
  ConversationResponse(
    <<"I'm sorry, something went wrong. Please try again.">>, "ASK_QUESTION",
    Some([text |-> <<"What would you like help with?">>, field |-> "unknown",
          inputType |-> "TEXT", choices |-> <<>>, quickReplies |-> <<>>,
          optional |-> FALSE]),
    request.slots, "LOW", None, None,
    [phoneSource |-> "PLACE", directPhoneSlot |-> None, title |-> "Assistant",
     description |-> ""],
    FALSE, "fallback", None)

\* _create_fallback_response.  import_ok: whether `backend_v2.engine.planner`,
\* imported inside the function, resolves in this process (the module itself
\* is loaded as `engine.planner`); when it does not, the import raises and the
\* except branch answers.
create_fallback_response(request, import_ok, seed) ==
  LET found == get_agent_spec(request.agentType)
      spec == found.spec[1]
      missing == get_missing_required_slots(spec, request.slots)
      slot_spec == IF missing # <<>> THEN get_slot_by_name(spec, missing[1]) ELSE None
  IN IF ~found.ok THEN UltimateFallback(request)
     ELSE IF slot_spec # None
     THEN IF ~import_ok THEN UltimateFallback(request)
          ELSE ConversationResponse(
                 <<"I need a bit more information. ">> \o slot_spec[1].prompt,
                 "ASK_QUESTION",
                 planner_to_api_question(Some(build_question(slot_spec[1]))),
                 request.slots, "LOW", None, None, build_agent_meta(spec),
                 FALSE, "fallback", None)
     ELSE IF ~import_ok THEN UltimateFallback(request)
          ELSE ConversationResponse(
                 <<"Let me confirm the details:">>, "CONFIRM", None,
                 request.slots, "LOW",
                 planner_to_api_confirmation_card(
                   Some(build_confirmation_card(spec, request.slots, seed))),
                 None, build_agent_meta(spec), FALSE, "fallback", None)

\* The except branches of process_conversation_v2.
\* `except ValueError`: HTTPException(400); cache and metrics stay as they are.
RaiseHttp400(store, metrics_, extract_called) ==
  HandlerResult("done", Outcome("http_error", None, "error", extract_called, FALSE, FALSE),
                store, metrics_)

\* What the handler does with a ValueError raised in its try block.
OnValueError(request, store, metrics_, import_ok, seed, extract_called) ==
  RaiseHttp400(store, metrics_, extract_called)

\* `except Exception`: the fallback response, counted in the metrics.
OnException(request, store, metrics_, import_ok, seed, extract_called) ==
  HandlerResult("done",
    Outcome("response", Some(create_fallback_response(request, import_ok, seed)),
            "fallback", extract_called, FALSE, FALSE),
    store, record_request(metrics_, FALSE, "ASK_QUESTION", TRUE))

\* The store after `if request.idempotencyKey: _store_idempotent_response(...)`.
StoreUnderKey(request, store, response, now_) ==
  IF Truthy(request.idempotencyKey)
  THEN store_idempotent_response(store, request.idempotencyKey[1], response, now_)
  ELSE store

\* A variant of the CONFIRM branch that answers with an empty slot store.
ConfirmTurnDropsSlots(request, spec, store, metrics_, now_) ==
  LET response ==
        ConversationResponse(<<"Great! I'll place the call now.">>, "COMPLETE", None,
                             EmptyDict, "HIGH", None, None, build_agent_meta(spec),
                             FALSE, "deterministic", None)
  IN HandlerResult("done", Outcome("response", Some(response), "confirm", FALSE, FALSE, FALSE),
                   StoreUnderKey(request, store, response, now_),
                   record_request(metrics_, FALSE, "COMPLETE", FALSE))

\* The CONFIRM branch of process_conversation_v2.
ConfirmTurn(request, spec, store, metrics_, now_) ==
  LET response ==
        ConversationResponse(<<"Great! I'll place the call now.">>, "COMPLETE", None,
                             request.slots, "HIGH", None, None, build_agent_meta(spec),
                             FALSE, "deterministic", None)
  IN HandlerResult("done", Outcome("response", Some(response), "confirm", FALSE, FALSE, FALSE),
                   StoreUnderKey(request, store, response, now_),
                   record_request(metrics_, FALSE, "COMPLETE", FALSE))

\* The REJECT branch: the planner runs with client_action REJECT and the
\* defaults of its other parameters; card and lookup parameters are not copied.
RejectTurn(request, spec, store, metrics_, now_, seed) ==
  LET planner_result ==
        decide_next_action(spec, request.slots, Some("REJECT"), <<>>, None, seed)
      response ==
        ConversationResponse(planner_result.assistant_message, planner_result.next_action,
                             planner_to_api_question(planner_result.question),
                             request.slots, "HIGH", None, None, build_agent_meta(spec),
                             FALSE, "deterministic", None)
  IN HandlerResult("done", Outcome("response", Some(response), "reject", FALSE, FALSE, TRUE),
                   StoreUnderKey(request, store, response, now_),
                   record_request(metrics_, FALSE, planner_result.next_action, FALSE))

\* Steps 2 to 5 of the normal flow, from an ExtractionResult on.
FinishNormal(request, spec, extraction_result, store, metrics_, now_, seed) ==
  LET merged_slots == DictMerge(request.slots, extraction_result.extracted_data)
      planner_result ==
        decide_next_action(spec, merged_slots, None, request.userMessage,
                           request.currentQuestionSlotName, seed)
      debug_payload ==
        IF request.debug
        THEN Some([planner_action |-> planner_result.next_action,
                   planner_question_slot |->
                     IF planner_result.question # None
                     THEN Some(planner_result.question[1].slot_name) ELSE None,
                   extraction_llm_used |-> extraction_result.llm_used,
                   extraction_raw_data |-> extraction_result.extracted_data,
                   merged_slots |-> merged_slots,
                   missing_required_slots |-> get_missing_required_slots(spec, merged_slots)])
        ELSE None
      response ==
        ConversationResponse(
          planner_result.assistant_message, planner_result.next_action,
          planner_to_api_question(planner_result.question), merged_slots,
          IF ~extraction_result.llm_used THEN "HIGH" ELSE "MEDIUM",
          planner_to_api_confirmation_card(planner_result.confirmation_card),
          planner_to_api_place_search_params(planner_result.place_search_params),
          build_agent_meta(spec), extraction_result.llm_used,
          IF extraction_result.llm_model # None THEN extraction_result.llm_model[1]
          ELSE "deterministic",
          debug_payload)
  IN HandlerResult("done",
       Outcome("response", Some(response), "normal", TRUE, extraction_result.llm_used, TRUE),
       StoreUnderKey(request, store, response, now_),
       record_request(metrics_, extraction_result.llm_used, planner_result.next_action, FALSE))

\* The answer to a request whose token has a valid cache entry.
CacheHit(cached, store, metrics_) ==
  HandlerResult("done", Outcome("response", Some(cached), "cached", FALSE, FALSE, FALSE),
                store, record_idempotency_hit(metrics_))

\* A variant of process_conversation_v2 that looks at the client action
\* before it looks at the idempotency cache.
process_begin_action_first(request, openai_client, store, metrics_, now_, import_ok, int_limit, seed, fault) ==
  LET found == get_agent_spec(request.agentType)
      spec == found.spec[1]
      lookup == IF Truthy(request.idempotencyKey)
                THEN get_idempotent_response(store, request.idempotencyKey[1], now_)
                ELSE [response |-> None, store |-> store]
      ex == extract_slots_begin(spec, request.userMessage,
                                request.currentQuestionSlotName, openai_client, int_limit)
  IN IF ~found.ok THEN OnValueError(request, store, metrics_, import_ok, seed, FALSE)
     ELSE IF request.clientAction = Some("CONFIRM")
       THEN ConfirmTurn(request, spec, store, metrics_, now_)
     ELSE IF request.clientAction = Some("REJECT")
       THEN RejectTurn(request, spec, store, metrics_, now_, seed)
     ELSE IF lookup.response # None THEN CacheHit(lookup.response[1], lookup.store, metrics_)
     ELSE IF fault
       THEN OnException(request, lookup.store, metrics_, import_ok, seed, TRUE)
     ELSE IF ex.status = "raise"
       THEN OnValueError(request, lookup.store, metrics_, import_ok, seed, TRUE)
     ELSE IF ex.status = "await"
       THEN HandlerResult("await", Outcome("none", None, "normal", TRUE, TRUE, FALSE),
                          lookup.store, metrics_)
     ELSE FinishNormal(request, spec, ex.result, lookup.store, metrics_, now_, seed)

\* process_conversation_v2 from its start to its return, or to the await of
\* the chat-completion call.  fault: extract_slots raises an exception that
\* is not a ValueError (MemoryError, RecursionError, ...).
process_begin(request, openai_client, store, metrics_, now_, import_ok, int_limit, seed, fault) ==
  LET found == get_agent_spec(request.agentType)
      spec == found.spec[1]
      lookup == IF Truthy(request.idempotencyKey)
                THEN get_idempotent_response(store, request.idempotencyKey[1], now_)
                ELSE [response |-> None, store |-> store]
      ex == extract_slots_begin(spec, request.userMessage,
                                request.currentQuestionSlotName, openai_client, int_limit)
  IN IF ~found.ok THEN OnValueError(request, store, metrics_, import_ok, seed, FALSE)
     ELSE IF lookup.response # None THEN CacheHit(lookup.response[1], lookup.store, metrics_)
     ELSE IF request.clientAction = Some("CONFIRM")
       THEN ConfirmTurn(request, spec, lookup.store, metrics_, now_)
     ELSE IF request.clientAction = Some("REJECT")
       THEN RejectTurn(request, spec, lookup.store, metrics_, now_, seed)
     ELSE IF fault
       THEN OnException(request, lookup.store, metrics_, import_ok, seed, TRUE)
     ELSE IF ex.status = "raise"
       THEN OnValueError(request, lookup.store, metrics_, import_ok, seed, TRUE)
     ELSE IF ex.status = "await"
       THEN HandlerResult("await", Outcome("none", None, "normal", TRUE, TRUE, FALSE),
                          lookup.store, metrics_)
     ELSE FinishNormal(request, spec, ex.result, lookup.store, metrics_, now_, seed)

\* process_conversation_v2 from the return of the chat-completion call on.
process_resume(request, reply, store, metrics_, now_, seed) ==
  LET spec == get_agent_spec(request.agentType).spec[1]
      llm_result == extract_with_llm(spec, reply, LLM_MODEL)
  IN FinishNormal(request, spec, extract_slots_end(llm_result), store, metrics_, now_, seed)

\* -------------------------------------------------------- legacy endpoint
\* app/main.py: the repair of a response that the free-form generation step
\* produced.

\* bool(value) of a slot value.
PyTruthy(v) ==
  IF v.k = "none" THEN FALSE
  ELSE IF v.k = "int" THEN ToNat(v.s) # 0
  ELSE v.s # <<>>

\* REQUIRED_SLOTS_MAP.get(agent_type, [])
REQUIRED_SLOTS_MAP(agent_type) ==
  LET Req(field, question_text, input_type) ==
        [field |-> field, question_text |-> <<question_text>>, input_type |-> input_type]
  IN IF agent_type = "SICK_CALLER" THEN
       <<Req("employer_name", "Who should I call to notify?", "TEXT"),
         Req("employer_phone", "What's their phone number?", "PHONE"),
         Req("caller_name", "What name should I give them?", "TEXT"),
         Req("shift_date", "When is your shift?", "DATE"),
         Req("shift_start_time", "What time does it start?", "TIME"),
         Req("reason_category", "What's the reason?", "CHOICE")>>
     ELSE IF agent_type = "STOCK_CHECKER" THEN
       <<Req("retailer_name", "Which retailer should I call?", "TEXT"),
         Req("product_name", "What product are you looking for?", "TEXT"),
         Req("quantity", "How many do you need?", "NUMBER"),
         Req("store_location", "Which suburb or area?", "TEXT")>>
     ELSE IF agent_type = "RESTAURANT_RESERVATION" THEN
       <<Req("restaurant_name", "Which restaurant would you like to book?", "TEXT"),
         Req("party_size", "How many people?", "NUMBER"),
         Req("date", "What date?", "DATE"),
         Req("time", "What time?", "TIME")>>
     ELSE IF agent_type = "CANCEL_APPOINTMENT" THEN
       <<Req("business_name", "What's the name of the business?", "TEXT"),
         Req("appointment_day", "What day is the appointment?", "DATE"),
         Req("appointment_time", "What time is the appointment?", "TIME"),
         Req("customer_name", "What name is the booking under?", "TEXT")>>
     ELSE <<>>

\* _get_next_missing_slot: the first entry whose field is not in the store
\* or holds a falsy value; None when there is none.
get_next_missing_slot(agent_type, slots) ==
  LET required == REQUIRED_SLOTS_MAP(agent_type)
      missing == {i \in 1..Len(required) :
                    \/ required[i].field \notin DOMAIN slots
                    \/ ~PyTruthy(slots[required[i].field])}
  IN IF missing = {} THEN None
     ELSE Some(required[CHOOSE i \in missing : \A j \in missing : i <= j])

\* A ConversationResponse as the legacy endpoint builds it: extractedData is
\* Optional, engineVersion keeps its default, no agentMeta, no debugPayload.
LegacyResponse(assistantMessage, nextAction, question, extractedData, confidence, confirmationCard, placeSearchParams, aiCallMade, aiModel) ==
  [assistantMessage |-> assistantMessage, nextAction |-> nextAction,
   question |-> question, extractedData |-> extractedData, confidence |-> confidence,
   confirmationCard |-> confirmationCard, placeSearchParams |-> placeSearchParams,
   agentMeta |-> None, aiCallMade |-> aiCallMade, aiModel |-> aiModel,
   engineVersion |-> "v1", debugPayload |-> None]

\* The Question generated for a missing slot.
GeneratedQuestion(next_slot) ==
  [text |-> next_slot.question_text,
   field |-> next_slot.field,
   inputType |-> IF next_slot.input_type \in {"TEXT", "NUMBER", "DATE", "TIME", "BOOLEAN",
                                              "CHOICE", "PHONE", "YES_NO"}
                 THEN next_slot.input_type ELSE "TEXT",
   choices |-> None, quickReplies |-> None, optional |-> FALSE]

\* `not assistant_message or not assistant_message.strip()`
BlankMessage(text) == Strip(text) = <<>>

MSG_NEED_BUSINESS ==
  <<"I need more information. What's the name of the business you'd like to call?">>
MSG_NEED_MORE == <<"I need a bit more information to continue.">>

\* A variant of the question of the sanitized response in which a question
\* that conflicts with the action's payload is kept.
SanitizedQuestionKept(response, next_slot) ==
  IF \/ response.nextAction = "FIND_PLACE" /\ response.placeSearchParams = None
     \/ response.nextAction = "CONFIRM" /\ response.confirmationCard = None
     \/ response.nextAction = "ASK_QUESTION" /\ response.question = None
  THEN IF next_slot # None THEN Some(GeneratedQuestion(next_slot[1]))
       ELSE response.question
  ELSE response.question

\* The question of the sanitized response: generated for the missing slot
\* when the action's payload is absent, dropped when FIND_PLACE or CONFIRM
\* has its payload, as it came otherwise.
SanitizedQuestion(response, next_slot) ==
  IF \/ response.nextAction = "FIND_PLACE" /\ response.placeSearchParams = None
     \/ response.nextAction = "CONFIRM" /\ response.confirmationCard = None
     \/ response.nextAction = "ASK_QUESTION" /\ response.question = None
  THEN IF next_slot # None THEN Some(GeneratedQuestion(next_slot[1]))
       ELSE response.question
  ELSE IF response.nextAction \in {"FIND_PLACE", "CONFIRM"} THEN None
  ELSE response.question

\* A variant that returns a payload with whatever action.
PayloadForAnyAction(next_action, action, payload) == payload

\* `payload if next_action == action else None` in the returned response.
PayloadFor(next_action, action, payload) ==
  IF next_action = action THEN payload ELSE None

\* sanitize_conversation_response; slots is Optional (the default None).
sanitize_conversation_response(response, agent_type, slots) ==
  LET slots_ == IF slots = None THEN EmptyDict ELSE slots[1]
      extracted_data == IF response.extractedData = None THEN EmptyDict
                        ELSE response.extractedData[1]
      merged_slots == DictMerge(slots_, extracted_data)
      next_slot == get_next_missing_slot(agent_type, merged_slots)
      no_params == response.nextAction = "FIND_PLACE" /\ response.placeSearchParams = None
      no_card == response.nextAction = "CONFIRM" /\ response.confirmationCard = None
      no_question == response.nextAction = "ASK_QUESTION" /\ response.question = None
      next_action == IF no_params \/ no_card THEN "ASK_QUESTION" ELSE response.nextAction
      question == SanitizedQuestion(response, next_slot)
      message ==
        IF no_params
        THEN IF next_slot # None THEN next_slot[1].question_text ELSE MSG_NEED_BUSINESS
        ELSE IF no_card
        THEN IF next_slot # None THEN next_slot[1].question_text
             ELSE response.assistantMessage
        ELSE IF no_question /\ next_slot # None /\ BlankMessage(response.assistantMessage)
        THEN next_slot[1].question_text
        ELSE response.assistantMessage
      assistant_message ==
        IF BlankMessage(message)
        THEN IF question # None /\ question[1].text # <<>> THEN question[1].text
             ELSE MSG_NEED_MORE
        ELSE message
  IN LegacyResponse(assistant_message, next_action, question, Some(merged_slots),
                    response.confidence,
                    PayloadFor(next_action, "CONFIRM", response.confirmationCard),
                    PayloadFor(next_action, "FIND_PLACE", response.placeSearchParams),
                    response.aiCallMade, response.aiModel)

\* ----------------------------------------------------------------- state
VARIABLES
  hashSeed,     \* the process's string hash seed (read by hash() in the planner)
  pin,          \* the arguments of a call of decide_next_action
  pout,         \* its PlannerResult (Optional: None before the call returns)
  importOk,     \* whether `backend_v2.engine.planner` resolves in this process
  intLimit,     \* whether the interpreter limits the digits of int(str)
  openaiClient, \* whether the endpoint passes an OpenAI client to the handler
  idem,         \* _idempotency_store_v2: token -> [response, timestamp]
  metrics,      \* _metrics
  now,          \* datetime.now(), in minutes
  turns,        \* requests received so far
  inflight,     \* the turns suspended in the chat-completion call
  last,         \* the turn that ended last (Optional)
  client,       \* the extractedData of the response the client got last (Optional)
  returned      \* the responses stored under a token and returned, with their time

orch == <<importOk, intLimit, openaiClient, idem, metrics, now, turns, inflight,
          last, client, returned>>

vars == <<hashSeed, pin, pout, importOk, intLimit, openaiClient, idem, metrics, now,
          turns, inflight, last, client, returned>>

\* ------------------------------------------------- inputs of the planner
\* Utterances: empty, plain text, two lookup phrases (one in upper case,
\* one inside a longer sentence), and a phone number.
U_EMPTY == <<>>
U_TEXT == <<"A","c","m","e">>
U_DONT_KNOW == <<"I"," ","D","O","N","'","T"," ","K","N","O","W">>
U_FIND == <<"c","a","n"," ","y","o","u"," ","l","o","o","k"," ","i","t"," ","u","p">>
U_PHONE == <<"0","4","1","2","3","4","5","6","7","8">>

Utterances == {U_EMPTY, U_TEXT, U_DONT_KNOW, U_FIND, U_PHONE}

\* A filled value, and the values that are present but may not count as filled.
V_TEXT == PyStr(U_TEXT)
OddValues == {PyNone, PyStr(<<>>), PyStr(<<" ", " ">>), PyInt(<<"0">>)}

RequiredNames(spec) ==
  {spec.slots_in_order[i].name :
     i \in {j \in 1..Len(spec.slots_in_order) : spec.slots_in_order[j].required}}
OptionalNames(spec) == SlotNames(spec) \ RequiredNames(spec)

\* Stores whose present slots all hold V_TEXT: any subset of the required
\* slots, with none or all of the optional slots.
PlainStores(spec) ==
  {[x \in req \cup opt |-> V_TEXT] :
     req \in SUBSET RequiredNames(spec), opt \in {{}, OptionalNames(spec)}}

\* Stores with up to MaxOdd odd values put into the empty or the full store.
MaxOdd == 1

RECURSIVE WithOdd(_, _, _)
WithOdd(spec, stores, n) ==
  IF n = 0 THEN stores
  ELSE WithOdd(spec,
         stores \cup {DictMerge(st, [x \in {name} |-> v]) :
                        st \in stores, name \in SlotNames(spec), v \in OddValues},
         n - 1)

Stores(spec) ==
  PlainStores(spec)
  \cup WithOdd(spec, {EmptyDict, [x \in SlotNames(spec) |-> V_TEXT]}, MaxOdd)

\* client_action: absent, the two the planner knows, and one it does not.
ClientActions == {None, Some("CONFIRM"), Some("REJECT"), Some("RESTART")}

\* The PHONE slots of an agent.
PhoneSlots(spec) ==
  {spec.slots_in_order[i].name :
     i \in {j \in 1..Len(spec.slots_in_order) : spec.slots_in_order[j].input_type = "PHONE"}}

\* current_question_slot: absent, empty, the first slot, a PHONE slot, an
\* undeclared name.
Hints(spec) ==
  {None, Some(""), Some(spec.slots_in_order[1].name), Some("no_such_slot")}
  \cup {Some(n) : n \in PhoneSlots(spec)}

Seeds == 0..MaxSeed

PlannerInputs ==
  UNION {[agent : {a}, slots : Stores(AGENTS(a)), client_action : ClientActions,
          user_message : Utterances, hint : Hints(AGENTS(a))] : a \in AgentKeys}

\* ---------------------------------------------------- the planner, called
\* The orchestrator before its first request.
OrchIdle ==
  /\ idem = [x \in {} |-> None]
  /\ metrics = V2Metrics
  /\ now = 0
  /\ turns = 0
  /\ inflight = <<>>
  /\ last = None
  /\ client = None
  /\ returned = {}

PlannerInit ==
  /\ hashSeed \in Seeds
  /\ pin \in PlannerInputs
  /\ pout = None
  /\ importOk = TRUE /\ intLimit = TRUE /\ openaiClient = TRUE
  /\ OrchIdle

\* One call of decide_next_action on the drawn arguments.
Decide ==
  /\ pout = None
  /\ pout' = Some(decide_next_action(AGENTS(pin.agent), pin.slots, pin.client_action,
                                     pin.user_message, pin.hint, hashSeed))
  /\ UNCHANGED <<hashSeed, pin, orch>>

PlannerNext == Decide

PlannerSpec == PlannerInit /\ [][PlannerNext]_vars

\* ------------------------------------------------ the orchestrator, called
\* An utterance with one digit more than the interpreter's limit.
U_HUGE == [i \in 1..(MaxStrDigits + 1) |-> "9"]

\* The (utterance, hint slot) pairs of the requests.
Probe(userMessage, hint) == [userMessage |-> userMessage, hint |-> hint]

\* The store with every required slot filled.
FullStore(spec) == [x \in RequiredNames(spec) |-> V_TEXT]

\* The slot store a request echoes: the extractedData of the response the
\* client got last, when that response was for the same agent.
Echo(agent) ==
  IF client # None /\ client[1].agent = agent
  THEN {[echo |-> TRUE, slots |-> client[1].slots]} ELSE {}

Tokens == {None, Some("k1")}

\* The requests of a turn, each with whether it echoes the last response and
\* whether extract_slots fails unexpectedly in it:
\*   plain SICK_CALLER turns (an answer to the name question, free text with
\*   no hint, a lookup phrase for the PHONE slot) on the empty or echoed store;
\*   CONFIRM and REJECT on the full or echoed store;
\*   turns in which extraction fails, on the empty and the full store;
\*   a STOCK_CHECKER turn whose answer to the NUMBER slot is U_HUGE.
TurnInputs ==
  {[request |-> ConversationRequest("SICK_CALLER", probe.userMessage, st.slots, None,
                                    token, probe.hint, FALSE),
    echo |-> st.echo, fault |-> FALSE] :
     probe \in {Probe(U_TEXT, Some("employer_name")), Probe(U_TEXT, None),
                Probe(U_FIND, Some("employer_phone"))},
     st \in {[echo |-> FALSE, slots |-> EmptyDict]} \cup Echo("SICK_CALLER"),
     token \in Tokens}
  \cup
  {[request |-> ConversationRequest("SICK_CALLER", U_TEXT, st.slots, Some(action),
                                    token, Some("employer_name"), FALSE),
    echo |-> st.echo, fault |-> FALSE] :
     action \in {"CONFIRM", "REJECT"},
     st \in {[echo |-> FALSE, slots |-> FullStore(SICK_CALLER_SPEC)]} \cup Echo("SICK_CALLER"),
     token \in Tokens}
  \cup
  {[request |-> ConversationRequest("SICK_CALLER", U_TEXT, slots, None,
                                    Some("k1"), Some("employer_name"), FALSE),
    echo |-> FALSE, fault |-> TRUE] :
     slots \in {EmptyDict, FullStore(SICK_CALLER_SPEC)}}
  \cup
  {[request |-> ConversationRequest("STOCK_CHECKER", U_HUGE, EmptyDict, None,
                                    None, Some("quantity"), FALSE),
    echo |-> FALSE, fault |-> FALSE]}

\* What the chat-completion call may give back for an agent: failures, and
\* objects that fill the agent's first slot, blank it, name no slot of it, or
\* name a slot of it and a name it does not declare.
LlmReplies(spec) ==
  LET first == spec.slots_in_order[1].name
  IN {LlmReply(kind, EmptyDict) : kind \in {"error", "not_json", "not_object", "no_key", "bad_data"}}
     \cup {LlmReply("data", d) :
             d \in {EmptyDict,
                    [x \in {first} |-> PyStr(<<"B","o","b">>)],
                    [x \in {first} |-> PyStr(<<" ">>)],
                    [x \in {first} |-> PyStr(<<>>)],
                    [x \in {first} |-> PyNone],
                    [x \in {"favourite_colour"} |-> V_TEXT],
                    [x \in {first, "favourite_colour"} |-> V_TEXT]}}

\* Whether a turn that ended this way wrote its response into the cache.
Stored(request, outcome) ==
  Truthy(request.idempotencyKey) /\ outcome.path \in {"confirm", "reject", "normal"}

\* The state after a turn has ended with `outcome`.  rec: the request, whether
\* it echoed the last response, when it came, and what had been returned
\* under its token by then.  reply: what the chat-completion call gave back,
\* None when the turn did not await it.
TurnEnds(rec, reply, outcome) ==
  /\ last' = Some([request |-> rec.request, echo |-> rec.echo, begin |-> rec.begin,
                   seen |-> rec.seen, reply |-> reply, outcome |-> outcome])
  /\ client' = IF outcome.kind = "response"
               THEN Some([agent |-> rec.request.agentType,
                          slots |-> outcome.response[1].extractedData])
               ELSE client
  /\ returned' = IF Stored(rec.request, outcome)
                 THEN returned \cup {[key |-> rec.request.idempotencyKey[1],
                                      response |-> outcome.response[1], at |-> now]}
                 ELSE returned

Init ==
  /\ hashSeed \in Seeds
  /\ pin = None
  /\ pout = None
  /\ importOk \in BOOLEAN
  /\ intLimit \in BOOLEAN
  /\ openaiClient \in BOOLEAN
  /\ OrchIdle

\* A request arrives and process_conversation_v2 runs until it returns,
\* raises, or suspends in the chat-completion call.
Submit(request, echo, fault) ==
  /\ turns < MaxTurns
  /\ \E r \in {process_begin(request, openaiClient, idem, metrics, now, importOk,
                              intLimit, hashSeed, fault)} :
     \E rec \in {[request |-> request, echo |-> echo, begin |-> now,
                  seen |-> {e \in returned : Some(e.key) = request.idempotencyKey}]} :
       /\ turns' = turns + 1
       /\ idem' = r.store
       /\ metrics' = r.metrics
       /\ IF r.status = "await"
          THEN /\ Len(inflight) < MaxInFlight
               /\ inflight' = Append(inflight, rec)
               /\ UNCHANGED <<last, client, returned>>
          ELSE /\ TurnEnds(rec, None, r.outcome)
               /\ UNCHANGED inflight
       /\ UNCHANGED <<hashSeed, pin, pout, importOk, intLimit, openaiClient, now>>

BeginTurn == \E in \in TurnInputs : Submit(in.request, in.echo, in.fault)

\* The chat-completion call of a suspended turn returns or raises, and the
\* handler runs to its end.
LlmAnswers ==
  \E i \in 1..Len(inflight) :
    \E reply \in LlmReplies(AGENTS(inflight[i].request.agentType)) :
      \E rec \in {inflight[i]} :
       \E r \in {process_resume(rec.request, reply, idem, metrics, now, hashSeed)} :
         /\ inflight' = SubSeq(inflight, 1, i - 1) \o SubSeq(inflight, i + 1, Len(inflight))
         /\ idem' = r.store
         /\ metrics' = r.metrics
         /\ TurnEnds(rec, Some(reply), r.outcome)
         /\ UNCHANGED <<hashSeed, pin, pout, importOk, intLimit, openaiClient, now, turns>>

\* Time passes: up to one minute before the TTL, then minute by minute.  The
\* clock is read only to stamp a cache entry and to compare with the stamp of
\* one, so it is started by the first entry.
Tick ==
  /\ now < MaxTime
  /\ DOMAIN idem # {}
  /\ now' = IF now < IDEMPOTENCY_TTL - 1 THEN IDEMPOTENCY_TTL - 1 ELSE now + 1
  /\ UNCHANGED <<hashSeed, pin, pout, importOk, intLimit, openaiClient, idem, metrics,
                 turns, inflight, last, client, returned>>

Next == BeginTurn \/ LlmAnswers \/ Tick

Spec == Init /\ [][Next]_vars

\* The same machine with the fairness the code's environment gives: wall
\* time passes.  The reply of the chat-completion call is the business of the
\* service called; extract_with_llm awaits it with no timeout of its own and
\* process_conversation_v2 awaits extract_slots the same way, so nothing in
\* the handler forces LlmAnswers to happen and it carries no fairness.
LiveSpec == Spec /\ WF_vars(Tick)

\* ------------------------------------- the orchestrator with a full cache
\* The cache after IDEMPOTENCY_MAX_ENTRIES earlier turns under other tokens:
\* the response of a CONFIRM turn under each, half of them stored longer ago
\* than the TTL and half a minute ago.
EarlierTokens(from, to) == {ToString(i) : i \in from..to}

EarlierResponse ==
  ConfirmTurn(ConversationRequest("SICK_CALLER", U_TEXT, EmptyDict,
                                  Some("CONFIRM"), None, None, FALSE),
              SICK_CALLER_SPEC, [x \in {} |-> None], V2Metrics, 0).outcome.response[1]

EarlierEntries ==
  LET expired == EarlierTokens(1, IDEMPOTENCY_MAX_ENTRIES \div 2)
      young == EarlierTokens(IDEMPOTENCY_MAX_ENTRIES \div 2 + 1, IDEMPOTENCY_MAX_ENTRIES)
  IN [k \in expired \cup young |->
        [response |-> EarlierResponse,
         timestamp |-> IF k \in expired THEN 0 - (IDEMPOTENCY_TTL + 1) ELSE 0 - 1]]

FullCacheInit ==
  /\ hashSeed = 0
  /\ pin = None
  /\ pout = None
  /\ importOk = TRUE
  /\ intLimit = TRUE
  /\ openaiClient = TRUE
  /\ idem = EarlierEntries
  /\ metrics = V2Metrics
  /\ now = 0
  /\ turns = 0
  /\ inflight = <<>>
  /\ last = None
  /\ client = None
  /\ returned = {}

FullCacheSpec == FullCacheInit /\ [][Next]_vars

\* ------------------------------------------------- extract_slots, called
\* Utterances for the typed parsers: empty and blank, free text, yes and no,
\* a phone number, dates, times, numbers in words and digits and beyond the
\* interpreter's limit, a choice label, a lookup phrase.
ExtractUtterances ==
  {U_EMPTY, <<" "," ">>, U_TEXT, <<"y","e","s">>, <<"n","o"," ","t","h","a","n","k","s">>, U_PHONE, <<"t","o","m","o","r","r","o","w">>,
   <<"2","5","/","1","2","/","2","0","2","6">>, <<"3","p","m">>, <<"7",":","3","0">>, <<"t","w","o">>, <<"1","2"," ","u","n","i","t","s">>, U_HUGE,
   <<"I","'","m"," ","s","i","c","k">>, U_FIND}

\* current_slot: absent, empty, an undeclared name, each declared slot.
ExtractHints(spec) ==
  {None, Some(""), Some("no_such_slot")} \cup {Some(n) : n \in SlotNames(spec)}

ExtractInputs ==
  UNION {[agent : {a}, user_message : ExtractUtterances,
          current_slot : ExtractHints(AGENTS(a))] : a \in AgentKeys}

ExtractInit ==
  /\ hashSeed = 0
  /\ pin \in ExtractInputs
  /\ pout = None
  /\ importOk = TRUE
  /\ intLimit \in BOOLEAN
  /\ openaiClient \in BOOLEAN
  /\ OrchIdle

\* extract_slots runs on the drawn arguments until it returns, raises, or
\* awaits the chat-completion call.
ExtractBegin ==
  /\ pout = None
  /\ \E ex \in {extract_slots_begin(AGENTS(pin.agent), pin.user_message,
                                    pin.current_slot, openaiClient, intLimit)} :
       pout' = Some([status |-> ex.status, result |-> ex.result, reply |-> None])
  /\ UNCHANGED <<hashSeed, pin, orch>>

\* The chat-completion call gives its reply and extract_slots returns.
ExtractEnd ==
  /\ pout # None
  /\ pout[1].status = "await"
  /\ \E reply \in LlmReplies(AGENTS(pin.agent)) :
       pout' = Some([status |-> "done",
                     result |-> extract_slots_end(
                                  extract_with_llm(AGENTS(pin.agent), reply, LLM_MODEL)),
                     reply |-> Some(reply)])
  /\ UNCHANGED <<hashSeed, pin, orch>>

ExtractNext == ExtractBegin \/ ExtractEnd

ExtractSpec == ExtractInit /\ [][ExtractNext]_vars

\* ------------------------------------ sanitize_conversation_response, called
\* agent_type is a plain string: the four agents and one the map lacks.
SanAgents == AgentKeys \cup {"NO_SUCH_AGENT"}

\* The required slots the stores are built over (for an agent the map lacks,
\* those of SICK_CALLER).
SanRequired(agent_type) ==
  IF REQUIRED_SLOTS_MAP(agent_type) # <<>> THEN REQUIRED_SLOTS_MAP(agent_type)
  ELSE REQUIRED_SLOTS_MAP("SICK_CALLER")

\* The store with the first n required slots filled.
SanPrefix(agent_type, n) == [x \in {SanRequired(agent_type)[i].field : i \in 1..n} |-> V_TEXT]

\* Values that Python counts as true or false differently from text.
SanOddValues == {PyInt(<<"0">>), PyStr(<<" ", " ">>), PyStr(<<>>), PyNone}

\* slots: the default None, the prefixes of the required slots up to the full
\* store, and the full store with an odd value in its first slot.
SanSlots(agent_type) ==
  LET n == Len(SanRequired(agent_type))
  IN {None}
     \cup {Some(SanPrefix(agent_type, k)) : k \in 0..n}
     \cup {Some(DictMerge(SanPrefix(agent_type, n),
                          [x \in {SanRequired(agent_type)[1].field} |-> v])) :
             v \in SanOddValues}

\* The slots a response extracts: the first two required ones and the
\* NUMBER ones.
SanExtractedNames(agent_type) ==
  {SanRequired(agent_type)[i].field :
     i \in {j \in 1..Len(SanRequired(agent_type)) :
              j <= 2 \/ SanRequired(agent_type)[j].input_type = "NUMBER"}}

\* extractedData: null, empty, or one slot with a text, a zero or a blank.
SanExtracted(agent_type) ==
  {None, Some(EmptyDict)}
  \cup {Some([x \in {n} |-> v]) :
          n \in SanExtractedNames(agent_type),
          v \in {V_TEXT, PyInt(<<"0">>), PyStr(<<" ", " ">>)}}

\* A question the generation step put into its response, bound to the
\* agent's first required slot.
SanQuestion(agent_type) ==
  [text |-> <<"And who is that?">>, field |-> SanRequired(agent_type)[1].field,
   inputType |-> "TEXT", choices |-> None, quickReplies |-> None, optional |-> FALSE]

\* A question whose text is white space only (text is any str).
SanBlankQuestion(agent_type) ==
  [SanQuestion(agent_type) EXCEPT !.text = <<" ", " ">>]

SanCard ==
  [title |-> <<"Confirm">>, lines |-> <<<<"Call Acme">>>>, confirmLabel |-> <<"Yes">>,
   rejectLabel |-> <<"Not quite">>, cardId |-> None]

SanParams == [query |-> <<"Acme">>, area |-> <<"Sydney">>, country |-> "AU"]

\* The responses of the generation step: every action with every
\* combination of present and absent payloads, with and without a message.
SanResponses(agent_type) ==
  {LegacyResponse(message, action, question, extracted, "MEDIUM", card, params,
                  TRUE, "gpt-4o-mini") :
     message \in {<<>>, <<" ", " ">>, <<"Thanks!">>},
     action \in {"ASK_QUESTION", "CONFIRM", "COMPLETE", "FIND_PLACE"},
     question \in {None, Some(SanQuestion(agent_type)), Some(SanBlankQuestion(agent_type))},
     extracted \in SanExtracted(agent_type),
     card \in {None, Some(SanCard)},
     params \in {None, Some(SanParams)}}

SanitizeInputs ==
  UNION {[agent_type : {a}, response : SanResponses(a), slots : SanSlots(a)] :
           a \in SanAgents}

SanitizeInit ==
  /\ hashSeed = 0
  /\ pin \in SanitizeInputs
  /\ pout = None
  /\ importOk = TRUE /\ intLimit = TRUE /\ openaiClient = TRUE
  /\ OrchIdle

\* One call of sanitize_conversation_response on the drawn arguments.
Sanitize ==
  /\ pout = None
  /\ pout' = Some(sanitize_conversation_response(pin.response, pin.agent_type, pin.slots))
  /\ UNCHANGED <<hashSeed, pin, orch>>

SanitizeNext == Sanitize

SanitizeSpec == SanitizeInit /\ [][SanitizeNext]_vars

\* ---------------------------------------- build_place_search_params, called
\* The agent and the store of one call.
LookupParamsInputs ==
  UNION {[agent : {a}, slots : Stores(AGENTS(a))] : a \in AgentKeys}

LookupParamsInit ==
  /\ hashSeed = 0
  /\ pin \in LookupParamsInputs
  /\ pout = None
  /\ importOk = TRUE /\ intLimit = TRUE /\ openaiClient = TRUE
  /\ OrchIdle

\* One call of build_place_search_params on the drawn arguments.
BuildParams ==
  /\ pout = None
  /\ pout' = Some(build_place_search_params(AGENTS(pin.agent), pin.slots))
  /\ UNCHANGED <<hashSeed, pin, orch>>

LookupParamsNext == BuildParams

LookupParamsSpec == LookupParamsInit /\ [][LookupParamsNext]_vars

\* ------------------------------------------ extract_choice_value, called
\* Choice lists: the one the catalog declares (the reasons of SICK_CALLER),
\* two in which an utterance meets one choice by a weaker test and a later
\* choice by a stronger one, and a slot with no choices.
ChoiceLists ==
  {get_slot_by_name(SICK_CALLER_SPEC, "reason_category")[1].choices,
   <<Choice(<<"N","o","t"," ","s","i","c","k">>, <<"W","E","L","L">>), Choice(<<"I","'","m"," ","s","i","c","k">>, <<"S","I","C","K">>)>>,
   <<Choice(<<"S","i","c","k">>, <<"I","L","L">>), Choice(<<"U","n","w","e","l","l">>, <<"S","I","C","K">>)>>,
   <<>>}

\* Utterances: those of the typed parsers, and values and labels of the
\* choices in several spellings.
ChoiceUtterances ==
  ExtractUtterances
  \cup {<<"S","I","C","K">>, <<"s","i","c","k">>, <<" ","S","i","c","k"," ">>, <<"i"," ","a","m"," ","s","i","c","k">>, <<"n","o","t"," ","s","i","c","k">>, <<"u","n","w","e","l","l">>,
        <<"W","E","L","L">>, <<"i","l","l">>, <<"c","a","r","e","r">>, <<"C","a","r","i","n","g"," ","f","o","r"," ","s","o","m","e","o","n","e">>, <<"c","a","r","i","n","g">>,
        <<"m","e","n","t","a","l","_","h","e","a","l","t","h">>, <<"m","e","n","t","a","l"," ","h","e","a","l","t","h"," ","d","a","y">>, <<"M","E","D","I","C","A","L","_","A","P","P","O","I","N","T","M","E","N","T">>,
        <<"a"," ","m","e","d","i","c","a","l"," ","a","p","p","o","i","n","t","m","e","n","t"," ","t","o","d","a","y">>, <<"h","o","l","i","d","a","y">>}

ChoiceInputs ==
  [user_message : ChoiceUtterances,
   slot_spec : {SlotSpec("reason_category", TRUE, "CHOICE", "What's the reason?", choices) :
                  choices \in ChoiceLists}]

ChoiceInit ==
  /\ hashSeed = 0
  /\ pin \in ChoiceInputs
  /\ pout = None
  /\ importOk = TRUE /\ intLimit = TRUE /\ openaiClient = TRUE
  /\ OrchIdle

\* One call of extract_choice_value on the drawn arguments; pout holds the
\* Optional it returns.
ExtractChoice ==
  /\ pout = None
  /\ pout' = Some(extract_choice_value(pin.user_message, pin.slot_spec))
  /\ UNCHANGED <<hashSeed, pin, orch>>

ChoiceNext == ExtractChoice

ChoiceSpec == ChoiceInit /\ [][ChoiceNext]_vars

\* ------------------------------------------------ OpenAIService, called
\* app/openai_service.py: the free-form generation step of the legacy
\* endpoint.  The text a chat-completion call returns is taken by what
\* json.loads and the regular expressions make of it:
\*   "error"       the call raised,
\*   "none"        content None or "",
\*   "garbage"     text that is not JSON and holds no JSON object,
\*   "non_object"  JSON that is not an object (null, a list, a number),
\*   "object"      a JSON object,
\*   "wrapped"     a JSON object with text or a code fence around it.
\* A JSON object is [assistantMessage, nextAction, extractedData, others]:
\* the three keys are Optional (None: the key is absent), extractedData is
\* the sequence of its items in the order of the text, others is the dict of
\* the further top-level keys.  The objects drawn carry no question,
\* confirmationCard, placeSearchParams or confidence.
ModelReply(kind, data) == [kind |-> kind, data |-> data]

JsonObject(assistantMessage, nextAction, extractedData, others) ==
  [assistantMessage |-> assistantMessage, nextAction |-> nextAction,
   extractedData |-> extractedData, others |-> others]

Item(key, value) == [key |-> key, value |-> value]

\* A JSON list as a value.
PyList == [k |-> "list", s |-> <<"['a']">>]

\* KNOWN_SLOT_KEYS.get(agent_type, set())
KNOWN_SLOT_KEYS(agent_type) ==
  IF agent_type = "SICK_CALLER" THEN
    {"employer_name", "employer_phone", "caller_name", "shift_date",
     "shift_start_time", "reason_category", "expected_return_date", "note_for_team"}
  ELSE IF agent_type = "STOCK_CHECKER" THEN
    {"retailer_name", "product_name", "quantity", "store_location",
     "brand", "model", "variant"}
  ELSE IF agent_type = "RESTAURANT_RESERVATION" THEN
    {"restaurant_name", "party_size", "date", "time", "suburb_or_area", "share_contact"}
  ELSE IF agent_type = "CANCEL_APPOINTMENT" THEN
    {"business_name", "appointment_day", "appointment_time", "customer_name",
     "business_location", "reason_enabled", "cancel_reason", "booking_reference",
     "reschedule_intent"}
  ELSE {}

RESPONSE_STRUCTURE_KEYS ==
  {"assistantMessage", "nextAction", "question", "extractedData",
   "confidence", "confirmationCard", "placeSearchParams"}

INVALID_SLOT_KEYS == {"slot", "value", "answer", "response", "data", "input"}

\* The loop of _sanitize_extracted_data over the items from position i on.
RECURSIVE SanitizeItems(_, _, _, _, _)
SanitizeItems(items, i, known_slots, last_question_field, sanitized) ==
  IF i > Len(items) THEN sanitized
  ELSE LET key == items[i].key
           value == items[i].value
           next ==
             IF value = PyNone \/ value = PyStr(<<>>) THEN sanitized
             ELSE IF key \in known_slots
               THEN DictMerge(sanitized, [x \in {key} |-> value])
             ELSE IF key \in INVALID_SLOT_KEYS
               THEN IF last_question_field # None /\ last_question_field[1] # ""
                       /\ last_question_field[1] \in known_slots
                    THEN DictMerge(sanitized, [x \in {last_question_field[1]} |-> value])
                    ELSE sanitized
             ELSE sanitized
       IN SanitizeItems(items, i + 1, known_slots, last_question_field, next)

\* _sanitize_extracted_data: extracted_data is None or the items of a dict;
\* the result is None or a dict.
sanitize_extracted_data(extracted_data, agent_type, last_question_field, existing_slots) ==
  IF extracted_data = None \/ extracted_data[1] = <<>> THEN None
  ELSE LET sanitized == SanitizeItems(extracted_data[1], 1, KNOWN_SLOT_KEYS(agent_type),
                                      last_question_field, EmptyDict)
       IN IF DOMAIN sanitized = {} THEN None ELSE Some(sanitized)

\* _get_choices_for_field
get_choices_for_field(agent_type, field) ==
  IF agent_type = "SICK_CALLER" /\ field = "reason_category"
  THEN Some(<<Choice(<<"I'm sick">>, <<"SICK">>),
              Choice(<<"Caring for someone">>, <<"CARER">>),
              Choice(<<"Mental health day">>, <<"MENTAL_HEALTH">>),
              Choice(<<"Medical appointment">>, <<"MEDICAL_APPOINTMENT">>),
              Choice(<<"Other">>, <<"OTHER">>)>>)
  ELSE None

\* REQUIRED_SLOTS.get(agent_type, []): the table of main.py, repeated.
REQUIRED_SLOTS(agent_type) == REQUIRED_SLOTS_MAP(agent_type)

\* The loop of _create_fallback_response and _build_slot_only_response: the
\* first entry whose field is not in the store or holds a falsy value.
NextSlotOf(agent_type, slots) ==
  LET required == REQUIRED_SLOTS(agent_type)
      missing == {i \in 1..Len(required) :
                    \/ required[i].field \notin DOMAIN slots
                    \/ ~PyTruthy(slots[required[i].field])}
  IN IF missing = {} THEN None
     ELSE Some(required[CHOOSE i \in missing : \A j \in missing : i <= j])

\* The Question both builders make for an entry of REQUIRED_SLOTS.
QuestionFor(agent_type, next_slot) ==
  [GeneratedQuestion(next_slot) EXCEPT
     !.choices = get_choices_for_field(agent_type, next_slot.field)]

\* _create_fallback_response
create_legacy_fallback_response(agent_type, slots, model) ==
  LET next_slot == NextSlotOf(agent_type, slots)
      question ==
        IF next_slot # None THEN QuestionFor(agent_type, next_slot[1])
        ELSE [text |-> <<"Could you please provide more details?">>,
              field |-> "additional_info", inputType |-> "TEXT",
              choices |-> None, quickReplies |-> None, optional |-> TRUE]
      assistant_message ==
        IF next_slot # None THEN next_slot[1].question_text
        ELSE <<"I need a bit more information to continue. Could you please provide more details?">>
  IN LegacyResponse(assistant_message, "ASK_QUESTION", Some(question), None, "LOW",
                    None, None, TRUE, model)

\* _build_slot_only_response
build_slot_only_response(extracted_slots, agent_type, model, all_slots) ==
  LET next_slot == NextSlotOf(agent_type, all_slots)
  IN LegacyResponse(
       IF next_slot # None THEN <<"Got it. ">> \o next_slot[1].question_text
       ELSE <<"I have all the information I need.">>,
       "ASK_QUESTION",
       IF next_slot # None THEN Some(QuestionFor(agent_type, next_slot[1])) ELSE None,
       Some(extracted_slots), "HIGH", None, None, TRUE, model)

\* _build_response_from_data on an object without question, card, params
\* and confidence: [ok, response]; ok = FALSE is the validation error that
\* ConversationResponse raises for an assistantMessage that is not a string.
build_response_from_data(data, model, agent_type, last_question_field, existing_slots) ==
  LET given == IF data.assistantMessage # None THEN data.assistantMessage[1] ELSE PyStr(<<>>)
      assistant_message ==
        IF ~PyTruthy(given) \/ Strip(PyToStr(given)) = <<>>
        THEN PyStr(<<"I'm processing your request. Could you tell me more?">>)
        ELSE given
      next_action ==
        IF data.nextAction # None
           /\ data.nextAction[1] \in {"ASK_QUESTION", "CONFIRM", "COMPLETE", "FIND_PLACE"}
        THEN data.nextAction[1] ELSE "ASK_QUESTION"
      sanitized_extracted ==
        sanitize_extracted_data(data.extractedData, agent_type, last_question_field,
                                existing_slots)
  IN IF assistant_message.k # "str" THEN [ok |-> FALSE, response |-> None]
     ELSE [ok |-> TRUE,
           response |-> Some(LegacyResponse(assistant_message.s, next_action, None,
                                            sanitized_extracted, "MEDIUM", None, None,
                                            TRUE, model))]

\* set(data.keys())
DataKeys(data) ==
  (DOMAIN data.others)
  \cup (IF data.assistantMessage # None THEN {"assistantMessage"} ELSE {})
  \cup (IF data.nextAction # None THEN {"nextAction"} ELSE {})
  \cup (IF data.extractedData # None THEN {"extractedData"} ELSE {})

\* _try_parse_json: status "ok" with the response, "fail" (None and an
\* error message), or "raise": json.loads gave a value that is not a dict and
\* data.keys() raised AttributeError.
try_parse_json(content, agent_type, existing_slots, last_question_field, model) ==
  IF content.kind = "none" THEN [status |-> "fail", response |-> None]
  ELSE IF content.kind \in {"garbage", "wrapped"} THEN [status |-> "fail", response |-> None]
  ELSE IF content.kind = "non_object" THEN [status |-> "raise", response |-> None]
  ELSE
    LET data == content.data
        known_slots == KNOWN_SLOT_KEYS(agent_type)
        is_slot_only == /\ DataKeys(data) \cap RESPONSE_STRUCTURE_KEYS = {}
                        /\ DataKeys(data) \cap known_slots # {}
        new_keys == {x \in (DOMAIN data.others) \cap known_slots :
                       x \notin DOMAIN existing_slots \/ existing_slots[x] # data.others[x]}
        new_slots == [x \in new_keys |-> data.others[x]]
        built == build_response_from_data(data, model, agent_type, last_question_field,
                                          existing_slots)
    IN IF is_slot_only /\ new_keys # {}
       THEN [status |-> "ok",
             response |-> Some(build_slot_only_response(
                                 new_slots, agent_type, model,
                                 DictMerge(existing_slots, new_slots)))]
       ELSE IF built.ok THEN [status |-> "ok", response |-> built.response]
       ELSE [status |-> "fail", response |-> None]

\* _extract_json_from_text: the object found in the text, as content to
\* parse, or None.
extract_json_from_text(content) ==
  IF content.kind \in {"object", "wrapped"} THEN Some(ModelReply("object", content.data))
  ELSE None

\* Where a call of get_next_turn stands: pc "await" (the repair call is
\* awaited) or "done", the chat-completion calls made, the stages gone
\* through, and the response returned.
TurnState(pc, calls, stages, response) ==
  [pc |-> pc, calls |-> calls, stages |-> stages, response |-> response]

\* _parse_with_retry up to its return or to the await of the repair call,
\* under the exception barrier of get_next_turn: an exception that leaves
\* _try_parse_json ends the turn with the fallback response.
parse_with_retry_begin(raw_content, agent_type, slots, last_question_field, model) ==
  LET direct == try_parse_json(raw_content, agent_type, slots, last_question_field, model)
      extracted_json == extract_json_from_text(raw_content)
      second == try_parse_json(extracted_json[1], agent_type, slots, last_question_field, model)
  IN IF direct.status = "raise"
     THEN TurnState("done", 1, <<"raw", "fallback">>,
                    Some(create_legacy_fallback_response(agent_type, slots, model)))
     ELSE IF direct.status = "ok" THEN TurnState("done", 1, <<"raw">>, direct.response)
     ELSE IF extracted_json # None /\ second.status = "ok"
       THEN TurnState("done", 1, <<"raw", "extract">>, second.response)
     ELSE TurnState("await", 1, <<"raw", "extract">>, None)

\* get_next_turn from its start to its return or to the await of the repair
\* call: the first chat-completion call has given reply.
get_next_turn_begin(agent_type, slots, last_question_field, model, reply) ==
  IF reply.kind = "error"
  THEN TurnState("done", 1, <<"fallback">>,
                 Some(create_legacy_fallback_response(agent_type, slots, model)))
  ELSE parse_with_retry_begin(reply, agent_type, slots, last_question_field, model)

\* _retry_with_repair_prompt from the return of the repair call on, and the
\* rest of _parse_with_retry: any exception in the retry gives None.
get_next_turn_end(state, agent_type, slots, last_question_field, model, reply) ==
  LET result == IF reply.kind = "error" THEN [status |-> "fail", response |-> None]
                ELSE try_parse_json(reply, agent_type, slots, last_question_field, model)
  IN IF result.status = "ok"
     THEN TurnState("done", state.calls + 1, Append(state.stages, "retry"), result.response)
     ELSE TurnState("done", state.calls + 1, state.stages \o <<"retry", "fallback">>,
                    Some(create_legacy_fallback_response(agent_type, slots, model)))

\* The stores of a call: the prefixes of the required slots up to the full
\* store, the full store with an odd value in its first slot, and the full
\* store with 0 in its NUMBER slots.
NextTurnSlots(agent_type) ==
  LET required == REQUIRED_SLOTS(agent_type)
      numbers == {required[i].field : i \in {j \in 1..Len(required) :
                                               required[j].input_type = "NUMBER"}}
  IN {s[1] : s \in SanSlots(agent_type) \ {None}}
     \cup {DictMerge(SanPrefix(agent_type, Len(required)), [x \in numbers |-> PyInt(<<"0">>)])}

\* What _get_last_question_field finds in the message history: nothing, the
\* agent's first or second required slot, a field that is no slot.
LastFields(agent_type) ==
  {None, Some(REQUIRED_SLOTS(agent_type)[1].field),
   Some(REQUIRED_SLOTS(agent_type)[2].field), Some("no_such_slot")}

V_BOB == PyStr(<<"Bob">>)

\* extractedData of a reply, as items in the order of the text.
ExtractedItems(agent_type) ==
  LET first == REQUIRED_SLOTS(agent_type)[1].field
      second == REQUIRED_SLOTS(agent_type)[2].field
  IN {<<>>,
      <<Item(first, V_TEXT)>>,
      <<Item(first, V_TEXT), Item(second, V_BOB)>>,
      <<Item("slot", V_TEXT)>>,
      <<Item("foo", V_TEXT)>>,
      <<Item(first, V_TEXT), Item("foo", V_BOB)>>,
      <<Item(first, V_TEXT), Item("value", V_BOB)>>,
      <<Item("value", V_BOB), Item(first, V_TEXT)>>,
      <<Item("slot", V_TEXT), Item("answer", V_BOB)>>,
      <<Item(first, PyNone), Item(second, PyStr(<<>>))>>,
      <<Item(first, PyStr(<<" ", " ">>)), Item("input", PyInt(<<"0">>))>>,
      <<Item("data", PyNone), Item("response", PyStr(<<>>))>>}

\* The JSON objects of a reply: a response with extractedData and a valid
\* or an invalid nextAction, a response whose assistantMessage is a list or
\* blank, the empty object, slots alone (new, echoed or unknown).
ReplyObjects(agent_type) ==
  LET first == REQUIRED_SLOTS(agent_type)[1].field
  IN {JsonObject(Some(PyStr(<<"Thanks!">>)), next_action, Some(items), EmptyDict) :
        next_action \in {Some("CONFIRM"), Some("BOGUS")},
        items \in {<<>>, <<Item(first, V_TEXT), Item("value", V_BOB)>>, <<Item("foo", V_TEXT)>>}}
     \cup {JsonObject(Some(PyList), Some("ASK_QUESTION"), None, EmptyDict),
           JsonObject(Some(PyStr(<<" ", " ">>)), None, None, EmptyDict),
           JsonObject(None, None, None, EmptyDict),
           JsonObject(None, None, None, [x \in {first} |-> V_TEXT]),
           JsonObject(None, None, None, [x \in {first, "foo"} |-> V_BOB]),
           JsonObject(None, None, None, [x \in {"foo"} |-> V_TEXT])}

\* What a chat-completion call may give back.
ModelReplies(agent_type) ==
  {ModelReply(kind, JsonObject(None, None, None, EmptyDict)) :
     kind \in {"error", "none", "garbage", "non_object"}}
  \cup {ModelReply(kind, data) : kind \in {"object", "wrapped"},
                                 data \in ReplyObjects(agent_type)}

NextTurnInputs ==
  UNION {[agent_type : {a}, slots : NextTurnSlots(a), last_question_field : LastFields(a)] :
           a \in AgentType}

NextTurnInit ==
  /\ hashSeed = 0
  /\ pin \in NextTurnInputs
  /\ pout = None
  /\ importOk = TRUE /\ intLimit = TRUE /\ openaiClient = TRUE
  /\ OrchIdle

\* get_next_turn is called on the drawn arguments; the first chat-completion
\* call gives its reply and the method runs until it returns or awaits the
\* repair call.
GetNextTurn ==
  /\ pout = None
  /\ \E reply \in ModelReplies(pin.agent_type) :
     \E st \in {get_next_turn_begin(pin.agent_type, pin.slots, pin.last_question_field,
                                    LLM_MODEL, reply)} :
       pout' = Some([state |-> st, first |-> reply, second |-> None])
  /\ UNCHANGED <<hashSeed, pin, orch>>

\* The repair call gives its reply and get_next_turn returns.
RepairReturns ==
  /\ pout # None
  /\ pout[1].state.pc = "await"
  /\ \E reply \in ModelReplies(pin.agent_type) :
     \E st \in {get_next_turn_end(pout[1].state, pin.agent_type, pin.slots,
                                  pin.last_question_field, LLM_MODEL, reply)} :
       pout' = Some([state |-> st, first |-> pout[1].first, second |-> Some(reply)])
  /\ UNCHANGED <<hashSeed, pin, orch>>

NextTurnNext == GetNextTurn \/ RepairReturns

NextTurnSpec == NextTurnInit /\ [][NextTurnNext]_vars

\* ------------------------------------- _sanitize_extracted_data, called
\* agent_type is a plain string: the four agents and one the table lacks
\* (its items are those drawn for SICK_CALLER).
SanitizeDataInputs ==
  UNION {[extracted_data : {None} \cup {Some(items) :
                             items \in ExtractedItems(IF a \in AgentType THEN a
                                                      ELSE "SICK_CALLER")},
          agent_type : {a},
          last_question_field : LastFields(IF a \in AgentType THEN a ELSE "SICK_CALLER")
                                \cup {Some("")}] :
           a \in SanAgents}

SanitizeDataInit ==
  /\ hashSeed = 0
  /\ pin \in SanitizeDataInputs
  /\ pout = None
  /\ importOk = TRUE /\ intLimit = TRUE /\ openaiClient = TRUE
  /\ OrchIdle

\* One call of _sanitize_extracted_data on the drawn arguments.
SanitizeData ==
  /\ pout = None
  /\ pout' = Some(sanitize_extracted_data(pin.extracted_data, pin.agent_type,
                                          pin.last_question_field, EmptyDict))
  /\ UNCHANGED <<hashSeed, pin, orch>>

SanitizeDataNext == SanitizeData

SanitizeDataSpec == SanitizeDataInit /\ [][SanitizeDataNext]_vars

\* ------------------------------------------------------ the call webhooks
\* app/twilio_service.py and the /twilio endpoints of app/main.py: the live
\* conversation of one call run.  Speech and replies are texts (the dash of
\* the fixed lines is written "-").

NEGATIVE_ANSWERS ==
  {<<"n","o">>, <<"n","o","p","e">>, <<"n","a","h">>, <<"n","o","t"," ","n","e","e","d","e","d">>, <<"d","o","n","'","t"," ","n","e","e","d">>, <<"d","o"," ","n","o","t"," ","n","e","e","d">>, <<"a","l","l"," ","g","o","o","d">>,
   <<"w","e","'","r","e"," ","f","i","n","e">>, <<"n","o"," ","t","h","a","n","k","s">>, <<"c","a","n","'","t">>, <<"c","a","n","n","o","t">>, <<"n","o","t"," ","r","e","a","l","l","y">>}

POSITIVE_ANSWERS ==
  {<<"y","e","s">>, <<"y","e","a","h">>, <<"y","e","p">>, <<"s","u","r","e">>, <<"o","k">>, <<"o","k","a","y">>, <<"g","o","t"," ","i","t">>, <<"r","e","c","e","i","v","e","d">>,
   <<"u","n","d","e","r","s","t","o","o","d">>, <<"w","i","l","l"," ","d","o">>, <<"n","o","t","e","d">>, <<"t","h","a","n","k","s">>, <<"t","h","a","n","k"," ","y","o","u">>}

PASS_ON_PHRASES ==
  {<<"n","o","t"," ","m","e">>, <<"w","r","o","n","g"," ","p","e","r","s","o","n">>, <<"n","o","t"," ","t","h","e"," ","m","a","n","a","g","e","r">>, <<"n","o","t"," ","s","u","r","e">>, <<"c","a","n","'","t"," ","h","e","l","p">>,
   <<"s","p","e","a","k"," ","t","o">>, <<"c","a","l","l"," ","b","a","c","k">>, <<"p","a","s","s"," ","i","t"," ","o","n">>, <<"i","'","l","l"," ","t","e","l","l">>, <<"i"," ","c","a","n"," ","t","e","l","l">>,
   <<"l","e","t"," ","t","h","e","m"," ","k","n","o","w">>, <<"i"," ","w","i","l","l"," ","l","e","t">>, <<"s","e","n","d"," ","t","o">>, <<"w","r","o","n","g"," ","n","u","m","b","e","r">>, <<"w","h","o"," ","i","s"," ","t","h","i","s">>,
   <<"i","'","m"," ","n","o","t">>, <<"i","m"," ","n","o","t">>, <<"t","h","a","t","'","s"," ","n","o","t"," ","m","e">>}

HOLD_PHRASES ==
  {<<"o","n","e"," ","s","e","c">>, <<"j","u","s","t"," ","a"," ","s","e","c">>, <<"c","h","e","c","k","i","n","g">>, <<"h","o","l","d"," ","o","n">>, <<"m","o","m","e","n","t">>, <<"l","e","t"," ","m","e"," ","c","h","e","c","k">>,
   <<"g","i","v","e"," ","m","e"," ","a"," ","s","e","c","o","n","d">>, <<"o","n","e"," ","m","o","m","e","n","t">>, <<"j","u","s","t"," ","a"," ","m","o","m","e","n","t">>, <<"h","a","n","g"," ","o","n">>, <<"b","e","a","r"," ","w","i","t","h"," ","m","e">>}

INFO_INDICATORS ==
  {<<"o","n","e">>, <<"t","w","o">>, <<"t","h","r","e","e">>, <<"f","o","u","r">>, <<"f","i","v","e">>, <<"s","i","x">>, <<"s","e","v","e","n">>, <<"e","i","g","h","t">>, <<"n","i","n","e">>, <<"t","e","n">>,
   <<"e","l","e","v","e","n">>, <<"t","w","e","l","v","e">>, <<"t","w","e","n","t","y">>, <<"t","h","i","r","t","y">>, <<"f","o","r","t","y">>, <<"f","i","f","t","y">>, <<"h","u","n","d","r","e","d">>,
   <<"y","e","s">>, <<"y","e","a","h">>, <<"y","e","p">>, <<"y","u","p">>, <<"n","o">>, <<"n","o","p","e">>, <<"n","a","h">>,
   <<"i","n"," ","s","t","o","c","k">>, <<"o","u","t"," ","o","f"," ","s","t","o","c","k">>, <<"g","o","t">>, <<"h","a","v","e">>, <<"d","o","n","'","t"," ","h","a","v","e">>, <<"a","v","a","i","l","a","b","l","e">>, <<"u","n","a","v","a","i","l","a","b","l","e">>,
   <<"s","o","l","d"," ","o","u","t">>, <<"l","e","f","t">>, <<"r","e","m","a","i","n","i","n","g">>,
   <<"d","o","l","l","a","r">>, <<"d","o","l","l","a","r","s">>, <<"$">>, <<"p","r","i","c","e">>, <<"c","o","s","t">>, <<"c","o","s","t","s">>, <<"e","a","c","h">>, <<"p","e","r">>,
   <<"c","o","r","r","e","c","t">>, <<"r","i","g","h","t">>, <<"c","o","n","f","i","r","m","e","d">>, <<"b","o","o","k","e","d">>, <<"r","e","s","e","r","v","e","d">>}

\* any(p in s for p in phrases)
AnyIn(s, phrases) == \E t \in {s} : \E p \in phrases : Contains(t, p)

\* A variant of _detect_yes_no that checks the positive answers first.
detect_yes_no_positive_first(speech) ==
  LET Detect(s) == IF AnyIn(s, POSITIVE_ANSWERS) THEN Some("YES")
                   ELSE IF AnyIn(s, NEGATIVE_ANSWERS) THEN Some("NO")
                   ELSE None
  IN CHOOSE found \in {Detect(s) : s \in {Strip(l) : l \in {Lower(speech)}}} : TRUE

\* _detect_yes_no
detect_yes_no(speech) ==
  LET Detect(s) == IF AnyIn(s, NEGATIVE_ANSWERS) THEN Some("NO")
                   ELSE IF AnyIn(s, POSITIVE_ANSWERS) THEN Some("YES")
                   ELSE None
  IN CHOOSE found \in {Detect(s) : s \in {Strip(l) : l \in {Lower(speech)}}} : TRUE

\* _detect_pass_on
detect_pass_on(speech) ==
  \E l \in {Lower(speech)} : AnyIn(Strip(l), PASS_ON_PHRASES)

\* _contains_info
contains_info(speech) ==
  \/ \E i \in 1..Len(speech) : IsDigit(speech[i])
  \/ AnyIn(Lower(speech), INFO_INDICATORS)

\* len(s.split())
WordCount(s) ==
  LET words == Strip(CollapseSpaces(s))
  IN IF words = <<>> THEN 0
     ELSE Cardinality({i \in 1..Len(words) : words[i] = " "}) + 1

\* _is_pure_hold_phrase
is_pure_hold_phrase(speech) ==
  LET speech_lower == Strip(Lower(speech))
  IN /\ ~contains_info(speech)
     /\ AnyIn(speech_lower, HOLD_PHRASES)
     /\ WordCount(speech_lower) < 8

GOODBYE_PHRASES ==
  {<<"t","h","a","n","k"," ","y","o","u"," ","f","o","r"," ","y","o","u","r"," ","t","i","m","e">>, <<"t","h","a","n","k","s"," ","f","o","r"," ","y","o","u","r"," ","t","i","m","e">>, <<"h","a","v","e"," ","a"," ","g","r","e","a","t"," ","d","a","y">>,
   <<"h","a","v","e"," ","a"," ","g","o","o","d"," ","d","a","y">>, <<"h","a","v","e"," ","a"," ","n","i","c","e"," ","d","a","y">>, <<"t","a","k","e"," ","c","a","r","e">>, <<"g","o","o","d","b","y","e">>, <<"g","o","o","d"," ","b","y","e">>,
   <<"b","y","e"," ","b","y","e">>, <<"b","y","e">>}

\* re.sub(r'[.,!;:\-—]+', ' ', text) and ' '.join(text.split()): the
\* punctuation becomes white space, the words are joined by one space.  The
\* dash of the fixed lines is written "-" here, and both dashes are in the
\* class.
NormalizeText(text) ==
  LET Spaced(t) == [i \in 1..Len(t) |->
                      IF t[i] \in {".", ",", "!", ";", ":", "-"} THEN " " ELSE t[i]]
      Marked(u) == [i \in 1..Len(u) |->
                      [c |-> u[i],
                       before |-> IF i = 1 THEN " " ELSE u[i - 1],
                       word_after |-> \E j \in i..Len(u) : u[j] \notin WhitespaceChars]]
      Kept(m) == \/ m.c \notin WhitespaceChars
                 \/ m.before \notin WhitespaceChars /\ m.word_after
      Chars(q) == [j \in 1..Len(q) |-> IF q[j].c \in WhitespaceChars THEN " " ELSE q[j].c]
  IN CHOOSE joined \in {Chars(q) : q \in {SelectSeq(Marked(u), Kept) :
                                            u \in {Spaced(t) : t \in {text}}}} : TRUE

\* _is_terminal_text
is_terminal_text(text) ==
  IF \E i \in 1..Len(text) : text[i] = "?" THEN FALSE
  ELSE AnyIn(NormalizeText(Lower(text)), GOODBYE_PHRASES)

\* The fixed lines of generate_agent_response.
LINE_PASS_ON == <<"N","o"," ","w","o","r","r","i","e","s","-","c","o","u","l","d"," ","y","o","u"," ","p","l","e","a","s","e"," ","p","a","s","s"," ","t","h","i","s"," ","m","e","s","s","a","g","e"," ","o","n","?"," ","T","h","a","n","k"," ","y","o","u","."," ","G","o","o","d","b","y","e",".">>
LINE_THANKS == <<"T","h","a","n","k"," ","y","o","u","."," ","G","o","o","d","b","y","e",".">>
LINE_REPEAT == <<"I","'","m"," ","s","o","r","r","y",","," ","c","o","u","l","d"," ","y","o","u"," ","r","e","p","e","a","t"," ","t","h","a","t","?">>
LINE_TROUBLE == <<"I","'","m"," ","s","o","r","r","y",","," ","I","'","m"," ","h","a","v","i","n","g"," ","t","r","o","u","b","l","e","."," ","C","o","u","l","d"," ","y","o","u"," ","r","e","p","e","a","t"," ","t","h","a","t","?">>
LINE_WAIT == <<"N","o"," ","w","o","r","r","i","e","s","-","t","a","k","e"," ","y","o","u","r"," ","t","i","m","e","."," ","L","e","t"," ","m","e"," ","k","n","o","w"," ","w","h","e","n"," ","y","o","u","'","r","e"," ","r","e","a","d","y",".">>

\* CallRun: the fields the live conversation reads and writes.
CallRun(agent_type) ==
  [agent_type |-> agent_type, turn |-> 1, retry |-> 0,
   pending_user_speech |-> None, pending_agent_reply |-> None,
   is_generating |-> FALSE, pending_started_at |-> None,
   is_terminal |-> FALSE, message_confirm_asked |-> FALSE,
   message_confirm_result |-> None]

\* What the chat-completion call of generate_agent_response gives back:
\* "error" (it raised), "empty" (no content), or "content" with the text.
PhoneReply(kind, content) == [kind |-> kind, content |-> content]

\* content.strip().strip('"').strip("'")
RECURSIVE StripChar(_, _)
StripChar(s, c) ==
  IF s = <<>> THEN s
  ELSE IF Head(s) = c THEN StripChar(Tail(s), c)
  ELSE IF s[Len(s)] = c THEN StripChar(SubSeq(s, 1, Len(s) - 1), c)
  ELSE s

CleanContent(content) == StripChar(StripChar(Strip(content), "\""), "'")

\* generate_agent_response up to its return or to the await of the
\* chat-completion call (the service has its OpenAI client): [status,
\* call_run, reply].
generate_agent_response_begin(call_run, user_speech) ==
  IF call_run.agent_type = "SICK_CALLER" /\ call_run.message_confirm_asked
  THEN IF detect_pass_on(user_speech)
       THEN [status |-> "done", reply |-> LINE_PASS_ON,
             call_run |-> [call_run EXCEPT !.message_confirm_result = Some("PASS_ON"),
                                           !.is_terminal = TRUE]]
       ELSE IF detect_yes_no(user_speech) = Some("YES")
       THEN [status |-> "done", reply |-> LINE_THANKS,
             call_run |-> [call_run EXCEPT !.message_confirm_result = Some("YES"),
                                           !.is_terminal = TRUE]]
       ELSE IF detect_yes_no(user_speech) = Some("NO")
       THEN [status |-> "done", reply |-> LINE_PASS_ON,
             call_run |-> [call_run EXCEPT !.message_confirm_result = Some("NO"),
                                           !.is_terminal = TRUE]]
       ELSE [status |-> "await", reply |-> <<>>, call_run |-> call_run]
  ELSE [status |-> "await", reply |-> <<>>, call_run |-> call_run]

\* generate_agent_response from the return of the chat-completion call on.
\* repeated: the guard of the other agents finds the reply's question the
\* same as the last one and the speech without information.
generate_agent_response_end(call_run, user_speech, llm, repeated) ==
  IF llm.kind = "error" THEN [reply |-> LINE_TROUBLE, call_run |-> call_run]
  ELSE IF llm.kind = "empty" \/ llm.content = <<>>
    THEN [reply |-> LINE_REPEAT, call_run |-> call_run]
  ELSE
    LET content == CleanContent(llm.content)
        content_lower == Lower(content)
        asks == \/ Contains(content_lower, <<"c","o","n","f","i","r","m">>) /\ Contains(content_lower, <<"r","e","c","e","i","v","e","d">>)
                \/ Contains(content_lower, <<"c","o","n","f","i","r","m">>) /\ Contains(content_lower, <<"m","e","s","s","a","g","e">>)
                \/ Contains(content_lower, <<"i","s"," ","t","h","a","t"," ","o","k","a","y">>)
                \/ Contains(content_lower, <<"d","i","d"," ","y","o","u"," ","g","e","t"," ","t","h","a","t">>)
        goodbye == Contains(content_lower, <<"g","o","o","d","b","y","e">>) \/ Contains(content_lower, <<"g","o","o","d"," ","b","y","e">>)
    IN IF call_run.agent_type = "SICK_CALLER"
       THEN [reply |-> content,
             call_run |-> [call_run EXCEPT
                             !.message_confirm_asked = IF asks THEN TRUE ELSE @,
                             !.is_terminal = IF goodbye THEN TRUE ELSE @]]
       ELSE [reply |-> IF repeated THEN LINE_WAIT ELSE content, call_run |-> call_run]

\* The hard cap of twilio_poll on the time a reply may be pending, in seconds.
POLL_HARD_CAP == 20

\* A variant of the hard timeout check that never finds the cap exceeded.
HardCapNever(now_, pending_started_at) == FALSE

\* `elapsed > 20` of twilio_poll
HardCapExceeded(now_, pending_started_at) == now_ - pending_started_at > POLL_HARD_CAP

\* The turn limit of twilio_gather.
TURN_LIMIT == 8

\* The state of a call: the call run, what Twilio requests next (next is
\* "voice", "gather", "poll" or "ended", with the turn and the retry or
\* attempt of its URL), the background tasks added and not yet started, the
\* task that awaits the chat-completion call, the TwiML of the last
\* response, and the last run of generate_agent_response.
CallState(run, tw, queue, running, twiml, gen) ==
  [run |-> run, tw |-> tw, queue |-> queue, running |-> running, twiml |-> twiml,
   gen |-> gen]

Twilio(next, turn, n) == [next |-> next, turn |-> turn, n |-> n]

OPENER_CONTEXT == <<"The callee just answered the phone. Greet them briefly and state why you're calling">>

\* twilio_voice
twilio_voice(st) ==
  LET run == [st.run EXCEPT !.turn = 0, !.retry = 0]
  IN CallState(run, Twilio("gather", 0, 0),
               IF run.pending_agent_reply = None THEN Append(st.queue, OPENER_CONTEXT)
               ELSE st.queue,
               st.running, "gather", st.gen)

\* twilio_gather, with the turn and retry of the URL and the SpeechResult.
twilio_gather(st, turn, retry, SpeechResult) ==
  IF st.run.is_terminal
  THEN CallState(st.run, Twilio("ended", turn, retry), st.queue, st.running, "hangup", st.gen)
  ELSE
    LET run == [st.run EXCEPT !.turn = turn, !.retry = retry]
        user_speech == Strip(SpeechResult)
    IN IF Strip(SpeechResult) = <<>>
       THEN IF retry + 1 >= 2
            THEN CallState(run, Twilio("ended", turn, retry), st.queue, st.running,
                           "say_hangup", st.gen)
            ELSE CallState(run, Twilio("gather", turn, retry + 1), st.queue, st.running,
                           "say_gather", st.gen)
       ELSE IF turn >= TURN_LIMIT
       THEN CallState(run, Twilio("ended", turn, retry), st.queue, st.running,
                      "say_hangup", st.gen)
       ELSE IF turn > 0 /\ is_pure_hold_phrase(user_speech)
       THEN CallState(run, Twilio("gather", turn, 0), st.queue, st.running,
                      "say_gather", st.gen)
       ELSE IF turn = 0 /\ run.pending_agent_reply # None
       THEN CallState([run EXCEPT !.pending_agent_reply = None,
                                  !.pending_user_speech = None,
                                  !.pending_started_at = None,
                                  !.turn = 1, !.retry = 0],
                      Twilio("gather", 1, 0), st.queue, st.running, "say_gather", st.gen)
       ELSE CallState(run, Twilio("poll", turn + 1, 0), Append(st.queue, user_speech),
                      st.running, "filler_poll", st.gen)

\* twilio_poll, with the turn and attempt of the URL.
twilio_poll(st, turn, attempt, now_) ==
  IF st.run.pending_started_at # None /\ HardCapExceeded(now_, st.run.pending_started_at[1])
  THEN CallState(st.run, Twilio("ended", turn, attempt), st.queue, st.running,
                 "cap_hangup", st.gen)
  ELSE IF st.run.pending_agent_reply # None
  THEN LET is_terminal == is_terminal_text(st.run.pending_agent_reply[1])
           run == [st.run EXCEPT !.pending_agent_reply = None,
                                 !.pending_user_speech = None,
                                 !.pending_started_at = None,
                                 !.turn = turn, !.retry = 0,
                                 !.is_terminal = is_terminal]
       IN IF is_terminal
          THEN CallState(run, Twilio("ended", turn, attempt), st.queue, st.running,
                         "say_hangup", st.gen)
          ELSE CallState(run, Twilio("gather", turn, 0), st.queue, st.running,
                         "say_gather", st.gen)
  ELSE CallState(st.run, Twilio("poll", turn, IF attempt >= 3 THEN 0 ELSE attempt + 1),
                 st.queue, st.running, "filler_poll", st.gen)

\* What a run of generate_agent_response leaves for the record: the speech,
\* message_confirm_asked at its start, whether the model was called, the
\* reply, and is_terminal and message_confirm_result at its end.
Generation(user_speech, asked, llm_called, reply, run) ==
  [user_speech |-> user_speech, asked |-> asked, llm_called |-> llm_called,
   reply |-> reply, is_terminal |-> run.is_terminal,
   message_confirm_result |-> run.message_confirm_result]

\* generate_agent_response_async, for the i-th task added, from its start to
\* its return or to the await of the chat-completion call.
task_start(st, i, now_) ==
  LET user_speech == st.queue[i]
      queue == SubSeq(st.queue, 1, i - 1) \o SubSeq(st.queue, i + 1, Len(st.queue))
      marked == [st.run EXCEPT !.is_generating = TRUE,
                               !.pending_started_at = Some(now_),
                               !.pending_user_speech = Some(user_speech),
                               !.pending_agent_reply = None]
      begun == generate_agent_response_begin(marked, user_speech)
  IN IF st.run.is_generating
     THEN CallState(st.run, st.tw, queue, st.running, st.twiml, st.gen)
     ELSE IF begun.status = "done"
     THEN CallState([begun.call_run EXCEPT !.pending_agent_reply = Some(begun.reply),
                                           !.is_generating = FALSE],
                    st.tw, queue, st.running, st.twiml,
                    Some(Generation(user_speech, marked.message_confirm_asked, FALSE,
                                    begun.reply, begun.call_run)))
     ELSE CallState(marked, st.tw, queue,
                    Some([user_speech |-> user_speech,
                          asked |-> marked.message_confirm_asked]),
                    st.twiml, st.gen)

\* generate_agent_response_async from the return of the chat-completion
\* call on.
task_end(st, llm, repeated) ==
  LET ended == generate_agent_response_end(st.run, st.running[1].user_speech, llm, repeated)
  IN CallState([ended.call_run EXCEPT !.pending_agent_reply = Some(ended.reply),
                                      !.is_generating = FALSE],
               st.tw, st.queue, None, st.twiml,
               Some(Generation(st.running[1].user_speech, st.running[1].asked, TRUE,
                               ended.reply, ended.call_run)))

\* The gather requests of a call that the model follows.
MaxGathers == 2

\* The seconds the clock advances in one step.
ClockStep == 11

\* What the callee says: yes, no with thanks, a wrong person, an unclear
\* word, a hold phrase; and silence.
Speeches ==
  {<<"Y","e","s",","," ","g","o","t"," ","i","t">>, <<"N","o"," ","t","h","a","n","k","s">>, <<"I","'","m"," ","n","o","t"," ","t","h","e"," ","m","a","n","a","g","e","r">>, <<"P","a","r","d","o","n">>, <<"h","o","l","d"," ","o","n">>}

\* What the model says.
PhoneReplies ==
  {PhoneReply("error", <<>>), PhoneReply("empty", <<>>)}
  \cup {PhoneReply("content", c) :
          c \in {<<"C","a","n"," ","y","o","u"," ","c","o","n","f","i","r","m"," ","y","o","u"," ","r","e","c","e","i","v","e","d"," ","t","h","e"," ","m","e","s","s","a","g","e","?">>,
                 <<"T","h","a","n","k"," ","y","o","u","."," ","G","o","o","d","b","y","e",".">>,
                 <<"'","G","o","o","d","b","y","e"," ","f","o","r"," ","n","o","w",","," ","i","s"," ","t","h","a","t"," ","o","k","a","y","?","'">>,
                 <<"T","h","a","n","k","s",","," ","b","y","e","!">>}}

CallInit ==
  /\ hashSeed = 0
  /\ pin \in {[agent_type |-> a] : a \in {"SICK_CALLER", "STOCK_CHECKER"}}
  /\ pout = Some(CallState(CallRun(pin.agent_type), Twilio("voice", 0, 0), <<>>, None,
                           "none", None))
  /\ importOk = TRUE /\ intLimit = TRUE /\ openaiClient = TRUE
  /\ OrchIdle

CallFrame == UNCHANGED <<hashSeed, pin, importOk, intLimit, openaiClient, idem, metrics,
                         inflight, last, client, returned>>

\* The call connects: Twilio requests /twilio/voice.
Voice ==
  /\ pout[1].tw.next = "voice"
  /\ pout' = Some(twilio_voice(pout[1]))
  /\ UNCHANGED <<now, turns>>
  /\ CallFrame

\* Twilio requests /twilio/gather with the callee's speech, or, redirected
\* after silence, without speech and with retry 1.
Gather ==
  /\ pout[1].tw.next = "gather"
  /\ turns < MaxGathers
  /\ \E speech \in Speeches \cup {<<>>} :
     \E st \in {twilio_gather(pout[1], pout[1].tw.turn,
                              IF speech = <<>> THEN 1 ELSE pout[1].tw.n, speech)} :
       pout' = Some(st)
  /\ turns' = turns + 1
  /\ UNCHANGED now
  /\ CallFrame

\* Twilio follows the redirect to /twilio/poll.
Poll ==
  /\ pout[1].tw.next = "poll"
  /\ \E st \in {twilio_poll(pout[1], pout[1].tw.turn, pout[1].tw.n, now)} :
       pout' = Some(st)
  /\ UNCHANGED <<now, turns>>
  /\ CallFrame

\* A background task that was added starts.
TaskStart ==
  /\ \E i \in 1..Len(pout[1].queue) :
     \E st \in {task_start(pout[1], i, now)} :
       pout' = Some(st)
  /\ UNCHANGED <<now, turns>>
  /\ CallFrame

\* The chat-completion call of the running task returns.
TaskEnd ==
  /\ pout[1].running # None
  /\ \E llm \in PhoneReplies,
        repeated \in IF pin.agent_type = "SICK_CALLER" THEN {FALSE} ELSE BOOLEAN :
     \E st \in {task_end(pout[1], llm, repeated)} :
       pout' = Some(st)
  /\ UNCHANGED <<now, turns>>
  /\ CallFrame

\* Time passes while a reply is pending (no handler reads the clock
\* otherwise, and none after the cap is exceeded).
CallTick ==
  /\ pout[1].run.pending_started_at # None
  /\ now - pout[1].run.pending_started_at[1] <= POLL_HARD_CAP
  /\ now' = now + ClockStep
  /\ UNCHANGED <<pout, turns>>
  /\ CallFrame

CallNext == Voice \/ Gather \/ Poll \/ TaskStart \/ TaskEnd \/ CallTick

CallSpec == CallInit /\ [][CallNext]_vars

\* The same machine with the fairness of its environment: Twilio follows
\* the redirect of a response, Starlette runs a background task after the
\* response is sent, and wall time passes.  The chat-completion call may
\* never return: TaskEnd carries no fairness.
CallLiveSpec ==
  CallSpec /\ WF_vars(Poll) /\ WF_vars(TaskStart) /\ WF_vars(CallTick)

\* ================================================================ claims
\* What the claims say, stated apart from the planner's own operators.

\* A slot counts as filled: present, not None, and a string only if it has
\* a character that is not white space.
FilledIn(slots, name) ==
  /\ name \in DOMAIN slots
  /\ slots[name].k # "none"
  /\ slots[name].k = "str" =>
       \E i \in 1..Len(slots[name].s) : slots[name].s[i] \notin WhitespaceChars

\* The positions of the required slots that are not filled.
Unfilled(spec, slots) ==
  {i \in 1..Len(spec.slots_in_order) :
     spec.slots_in_order[i].required /\ ~FilledIn(slots, spec.slots_in_order[i].name)}

\* Position i is the first required slot that is not filled.
FirstUnfilled(spec, slots, i) ==
  i \in Unfilled(spec, slots) /\ \A j \in Unfilled(spec, slots) : i <= j

\* The utterances that contain a lookup keyword, whatever the case.
LookupUtterances == {U_DONT_KNOW, U_FIND}

\* The planner's lookup trigger, on the drawn inputs.
LookupFires(in) ==
  /\ in.client_action \notin {Some("CONFIRM"), Some("REJECT")}
  /\ in.hint # None
  /\ in.hint[1] \in PhoneSlots(AGENTS(in.agent))
  /\ in.user_message \in LookupUtterances

\* The question of a result is bound to position i of the agent's slots.
BoundTo(spec, result, i) ==
  /\ result.question # None
  /\ result.question[1].slot_name = spec.slots_in_order[i].name
  /\ result.question[1].prompt = spec.slots_in_order[i].prompt

Payloads(result) ==
  (IF result.question # None THEN 1 ELSE 0)
  + (IF result.confirmation_card # None THEN 1 ELSE 0)
  + (IF result.place_search_params # None THEN 1 ELSE 0)

\* C1: slot-completeness rule.  With client_action neither CONFIRM nor
\* REJECT and no lookup trigger, the planner asks for the first required
\* slot that is not filled, in declared order, with that slot's prompt as
\* message, and returns CONFIRM with a card exactly when every required
\* slot is filled; the slot asked is required and not filled.
C1_SlotCompleteness ==
  (pout # None
   /\ pin.client_action \notin {Some("CONFIRM"), Some("REJECT")}
   /\ ~LookupFires(pin)) =>
    LET spec == AGENTS(pin.agent)
        result == pout[1]
    IN /\ (result.next_action = "CONFIRM") <=> (Unfilled(spec, pin.slots) = {})
       /\ result.next_action = "CONFIRM" => result.confirmation_card # None
       /\ Unfilled(spec, pin.slots) # {} =>
            /\ result.next_action = "ASK_QUESTION"
            /\ \E i \in 1..Len(spec.slots_in_order) :
                  /\ FirstUnfilled(spec, pin.slots, i)
                  /\ BoundTo(spec, result, i)
                  /\ result.assistant_message = spec.slots_in_order[i].prompt
                  /\ spec.slots_in_order[i].required
                  /\ ~FilledIn(pin.slots, spec.slots_in_order[i].name)

\* C1 witness: an optional slot and a blank required slot come into play:
\* the store holds only blank text for the first required slot, the
\* planner asks for that slot.
C1_Witness ==
  /\ pout # None
  /\ pin.client_action = Some("RESTART")
  /\ pin.agent = "STOCK_CHECKER"
  /\ "retailer_name" \in DOMAIN pin.slots
  /\ pin.slots["retailer_name"] = PyStr(<<" ", " ">>)
  /\ "brand" \in DOMAIN pin.slots
  /\ pout[1].next_action = "ASK_QUESTION"
  /\ pout[1].question # None
  /\ pout[1].question[1].slot_name = "retailer_name"

\* C2: client_action CONFIRM yields COMPLETE for every agent, store,
\* utterance and hint, also with required slots missing and with the lookup
\* trigger's conditions met.
C2_ConfirmCompletes ==
  (pout # None /\ pin.client_action = Some("CONFIRM")) =>
    /\ pout[1].next_action = "COMPLETE"
    /\ Payloads(pout[1]) = 0

\* C2 witness: CONFIRM on an empty store with a lookup phrase and a PHONE hint.
C2_Witness ==
  /\ pout # None
  /\ pin.client_action = Some("CONFIRM")
  /\ pin.slots = EmptyDict
  /\ pin.hint = Some("employer_phone")
  /\ pin.agent = "SICK_CALLER"
  /\ pin.user_message = U_DONT_KNOW
  /\ pout[1].next_action = "COMPLETE"

\* C3: client_action REJECT yields ASK_QUESTION: bound to the first
\* required slot not filled, with message "No problem! {prompt}", or, when
\* every required slot is filled, the open question with no payload.
C3_RejectAsks ==
  (pout # None /\ pin.client_action = Some("REJECT")) =>
    LET spec == AGENTS(pin.agent)
        result == pout[1]
    IN /\ result.next_action = "ASK_QUESTION"
       /\ result.confirmation_card = None
       /\ result.place_search_params = None
       /\ Unfilled(spec, pin.slots) # {} =>
            \E i \in 1..Len(spec.slots_in_order) :
               /\ FirstUnfilled(spec, pin.slots, i)
               /\ BoundTo(spec, result, i)
               /\ result.assistant_message =
                    <<"No problem! ">> \o spec.slots_in_order[i].prompt
       /\ Unfilled(spec, pin.slots) = {} =>
            /\ result.question = None
            /\ result.assistant_message = <<"What would you like to change?">>

\* C3 witness: REJECT with every required slot filled, a lookup phrase and
\* a PHONE hint: the open question.
C3_Witness ==
  /\ pout # None
  /\ pin.client_action = Some("REJECT")
  /\ pin.agent = "SICK_CALLER"
  /\ Unfilled(AGENTS(pin.agent), pin.slots) = {}
  /\ pin.hint = Some("employer_phone")
  /\ pin.user_message = U_FIND
  /\ pout[1].question = None
  /\ pout[1].next_action = "ASK_QUESTION"

\* C6: lookup rule.  With client_action absent, a hint naming a PHONE slot
\* of the agent and an utterance containing a lookup keyword in any case,
\* the planner returns FIND_PLACE with lookup parameters, whether required
\* slots are missing or not.
C6_LookupRule ==
  (pout # None
   /\ pin.client_action = None
   /\ pin.hint # None
   /\ pin.hint[1] \in PhoneSlots(AGENTS(pin.agent))
   /\ pin.user_message \in LookupUtterances) =>
    /\ pout[1].next_action = "FIND_PLACE"
    /\ pout[1].place_search_params # None

\* C6 witness: the upper-case phrase with every required slot filled.
C6_Witness ==
  /\ pout # None
  /\ pin.client_action = None
  /\ pin.hint = Some("employer_phone")
  /\ pin.user_message = U_DONT_KNOW
  /\ Unfilled(AGENTS(pin.agent), pin.slots) = {}
  /\ pout[1].next_action = "FIND_PLACE"

\* C7 as stated: every result carries exactly one of question, card and
\* lookup parameters, the one its action names; COMPLETE carries none.
C7_ExactlyOnePayload ==
  pout # None =>
    LET result == pout[1]
    IN /\ result.next_action = "COMPLETE" => Payloads(result) = 0
       /\ result.next_action # "COMPLETE" => Payloads(result) = 1
       /\ result.next_action = "ASK_QUESTION" => result.question # None
       /\ result.next_action = "CONFIRM" => result.confirmation_card # None
       /\ result.next_action = "FIND_PLACE" => result.place_search_params # None

\* The open question of rule 2: REJECT with every required slot filled.
OpenQuestionCase ==
  /\ pin.client_action = Some("REJECT")
  /\ Unfilled(AGENTS(pin.agent), pin.slots) = {}

\* C7 amended: a result carries at most one of the three and only the one
\* its action names; CONFIRM carries a card, FIND_PLACE lookup parameters,
\* ASK_QUESTION a question except for the open question of REJECT with
\* every required slot filled, which carries none; COMPLETE carries none.
C7_PayloadMatchesAction ==
  pout # None =>
    LET result == pout[1]
    IN /\ Payloads(result) <= 1
       /\ result.question # None => result.next_action = "ASK_QUESTION"
       /\ result.confirmation_card # None => result.next_action = "CONFIRM"
       /\ result.place_search_params # None => result.next_action = "FIND_PLACE"
       /\ result.next_action = "CONFIRM" => result.confirmation_card # None
       /\ result.next_action = "FIND_PLACE" => result.place_search_params # None
       /\ result.next_action = "COMPLETE" => Payloads(result) = 0
       /\ result.next_action = "ASK_QUESTION" =>
            (result.question = None <=> OpenQuestionCase)

\* C7 witness: the open question, an ASK_QUESTION with no payload.
C7_Witness ==
  /\ pout # None
  /\ OpenQuestionCase
  /\ pout[1].next_action = "ASK_QUESTION"
  /\ Payloads(pout[1]) = 0

\* The names of the slots a store holds filled.
FilledNames(slots) == {x \in DOMAIN slots : FilledIn(slots, x)}

\* The last turn ended with a response.
Answered == last # None /\ last[1].outcome.kind = "response"

\* C4: monotonic accumulation.  When a request carries as its slots the
\* extractedData of the previous response, every slot name filled in that
\* store is filled in the store of the response to it.
C4_MonotonicAccumulation ==
  (Answered /\ last[1].echo) =>
    FilledNames(last[1].request.slots)
      \subseteq FilledNames(last[1].outcome.response[1].extractedData)

\* C5: idempotency.  For every response that a turn stored under token k
\* and returned less than the TTL ago, any turn submitted now with token k
\* returns that same response, and calls neither extraction nor the planner.
C5_IdempotentReplay ==
  \A e \in returned :
    now - e.at < IDEMPOTENCY_TTL =>
      \A in \in {i \in TurnInputs : i.request.idempotencyKey = Some(e.key)} :
        LET r == process_begin(in.request, openaiClient, idem, metrics, now,
                               importOk, intLimit, hashSeed, in.fault)
        IN /\ r.status = "done"
           /\ r.outcome.response = Some(e.response)
           /\ ~r.outcome.extract_called
           /\ ~r.outcome.planner_called

\* The last turn carried CONFIRM or REJECT.
ClientActionTurn ==
  last # None /\ last[1].request.clientAction \in {Some("CONFIRM"), Some("REJECT")}

\* What C8 says of a turn: no extraction call, deterministic or assisted,
\* aiCallMade false, and the request's slot store returned as it came.
BypassesExtraction(turn) ==
  /\ turn.outcome.kind = "response"
  /\ ~turn.outcome.extract_called
  /\ ~turn.outcome.llm_called
  /\ turn.outcome.response[1].aiCallMade = FALSE
  /\ turn.outcome.response[1].extractedData = turn.request.slots

\* C8: a turn with client_action CONFIRM or REJECT makes no extraction call
\* and returns the slot store of the request unchanged.
C8_ClientActionBypass == ClientActionTurn => BypassesExtraction(last[1])

\* C8 amended: a turn with client_action CONFIRM or REJECT that is not
\* answered from the idempotency cache makes no extraction call, has
\* aiCallMade false and returns the slot store of the request unchanged; a
\* turn answered from the cache returns the cached response, whatever its
\* slot store and aiCallMade.
C8_ClientActionBypassUncached ==
  ClientActionTurn =>
    IF last[1].outcome.path = "cached"
    THEN /\ ~last[1].outcome.extract_called
         /\ \E e \in last[1].seen : last[1].outcome.response = Some(e.response)
    ELSE BypassesExtraction(last[1])

\* C8 witness: a CONFIRM on a store with filled slots and an utterance that
\* the deterministic tier would parse, answered without the cache.
C8_Witness ==
  /\ ClientActionTurn
  /\ last[1].request.clientAction = Some("CONFIRM")
  /\ last[1].outcome.path = "confirm"
  /\ FilledNames(last[1].request.slots) # {}
  /\ last[1].request.userMessage = U_TEXT
  /\ last[1].outcome.response[1].extractedData = last[1].request.slots

\* C9: a turn ends in a caller-visible error only when the agent type is
\* not registered in the catalog.
C9_OnlyUnknownAgentFails ==
  (last # None /\ last[1].outcome.kind = "http_error") =>
    last[1].request.agentType \notin AgentKeys

\* The question of a response is bound to position i of the agent's slots.
AsksFor(spec, response, i) ==
  /\ response.nextAction = "ASK_QUESTION"
  /\ response.question # None
  /\ response.question[1].field = spec.slots_in_order[i].name
  /\ response.question[1].text = spec.slots_in_order[i].prompt

\* C10: the fallback response asks for the first required slot that is not
\* filled in the request's store, or, when none is, is CONFIRM with the card
\* rendered from the request's store; its slot store is the request's.
C10_FallbackAsksFirstMissing ==
  (Answered /\ last[1].outcome.path = "fallback") =>
    LET spec == AGENTS(last[1].request.agentType)
        slots == last[1].request.slots
        response == last[1].outcome.response[1]
    IN /\ response.extractedData = slots
       /\ Unfilled(spec, slots) # {} =>
            \E i \in Unfilled(spec, slots) :
               FirstUnfilled(spec, slots, i) /\ AsksFor(spec, response, i)
       /\ Unfilled(spec, slots) = {} =>
            /\ response.nextAction = "CONFIRM"
            /\ response.confirmationCard # None
            /\ response.confirmationCard[1].title = spec.confirm_title
            /\ response.confirmationCard[1].lines
                 = [i \in 1..Len(spec.confirm_lines) |->
                      FormatLine(spec.confirm_lines[i], slots)]

\* The ExtractionResult that extract_slots returned in a turn of the normal
\* flow: from the reply of the chat-completion call when the turn awaited
\* it, from the deterministic tier otherwise.
ExtractionOf(turn) ==
  LET spec == AGENTS(turn.request.agentType)
  IN IF turn.reply # None
     THEN extract_slots_end(extract_with_llm(spec, turn.reply[1], LLM_MODEL))
     ELSE extract_slots_begin(spec, turn.request.userMessage,
                              turn.request.currentQuestionSlotName,
                              openaiClient, intLimit).result

\* The last turn awaited the chat-completion call and has ended.
Assisted == last # None /\ last[1].reply # None

\* The call raised, or its content was not JSON, or not of the structure
\* {"extractedData": {...}} the prompt asks for.
FailedReply(reply) ==
  reply.kind \in {"error", "not_json", "not_object", "no_key", "bad_data"}

\* The turn ran the planner on the request's store and returned its answer.
NormalOnRequestStore(turn) ==
  /\ turn.outcome.kind = "response"
  /\ turn.outcome.path = "normal"
  /\ turn.outcome.planner_called
  /\ turn.outcome.response[1].extractedData = turn.request.slots

\* C11: when the chat-completion call raises, or returns content that is not
\* JSON or not of the expected structure, extract_slots returns an empty
\* extraction with confidence LOW, and the turn returns the planner's
\* response on the unchanged slot store.
C11_FailedCallIsEmptyLow ==
  (Assisted /\ FailedReply(last[1].reply[1])) =>
    /\ ExtractionOf(last[1]).extracted_data = EmptyDict
    /\ ExtractionOf(last[1]).confidence = "LOW"
    /\ NormalOnRequestStore(last[1])

\* C12: every turn eventually returns: a turn suspended in the
\* chat-completion call does not stay pending forever.
C12_EveryTurnReturns == (inflight # <<>>) ~> (inflight = <<>>)

\* ExtractSpec: the type-specific parse of the drawn utterance for the drawn
\* hint slot; no value when no hint is given or the agent declares no such slot.
HintParse ==
  LET slot_spec == IF Truthy(pin.current_slot)
                   THEN get_slot_by_name(AGENTS(pin.agent), pin.current_slot[1])
                   ELSE None
  IN IF slot_spec = None THEN [raised |-> FALSE, value |-> None]
     ELSE extract_slot_deterministic(pin.user_message, slot_spec[1], intLimit)

HintParseSucceeds == ~HintParse.raised /\ HintParse.value # None

\* extract_slots returned the one entry of the hint slot, HIGH, with no use
\* of the chat-completion call.
DeterministicResult ==
  /\ pout[1].status = "done"
  /\ pout[1].reply = None
  /\ pout[1].result.extracted_data = [x \in {pin.current_slot[1]} |-> HintParse.value[1]]
  /\ pout[1].result.confidence = "HIGH"
  /\ ~pout[1].result.llm_used

\* C13: when a hint slot is given and the type-specific parse of the
\* utterance succeeds, extract_slots returns exactly the entry of the hint
\* slot, confidence HIGH, llm_used false, and the chat-completion call is
\* not made.
C13_DeterministicShortCircuit ==
  (pout # None /\ HintParseSucceeds) => DeterministicResult

\* C13 amended: the same for an utterance that is not blank; on a blank
\* utterance extract_slots returns the empty extraction without attempting
\* the parse.
C13_DeterministicShortCircuitNonBlank ==
  (pout # None /\ HintParseSucceeds) =>
    IF Strip(pin.user_message) # <<>> THEN DeterministicResult
    ELSE /\ pout[1].status = "done"
         /\ pout[1].reply = None
         /\ pout[1].result = ExtractionResult(EmptyDict, FALSE, None, "HIGH")

\* C13 witness: a phone number answered to a PHONE hint with a client at
\* hand: the normalised number is returned and the call is not made.
C13_Witness ==
  /\ pout # None
  /\ openaiClient
  /\ pin.current_slot = Some("employer_phone")
  /\ pin.user_message = U_PHONE
  /\ HintParseSucceeds
  /\ pout[1].status = "done"
  /\ pout[1].reply = None
  /\ DOMAIN pout[1].result.extracted_data = {"employer_phone"}
  /\ pout[1].result.extracted_data["employer_phone"] # PyStr(U_PHONE)

\* C14: every key of the result of extract_slots is a slot name the agent
\* declares; a name in the reply of the chat-completion call that the agent
\* does not declare is not in the result.
C14_OnlyDeclaredKeys ==
  (pout # None /\ pout[1].status = "done") =>
    DOMAIN pout[1].result.extracted_data \subseteq SlotNames(AGENTS(pin.agent))

\* C14 witness: the reply names a declared slot and an undeclared one, and
\* the result holds the declared one alone.
C14_Witness ==
  /\ pout # None
  /\ pout[1].reply # None
  /\ pout[1].reply[1].kind = "data"
  /\ \E x \in DOMAIN pout[1].reply[1].data : x \notin SlotNames(AGENTS(pin.agent))
  /\ DOMAIN pout[1].result.extracted_data = {AGENTS(pin.agent).slots_in_order[1].name}

\* C15: a result of extract_slots whose values came from the chat-completion
\* call carries confidence MEDIUM and llm_used true, the result of a failed
\* call carries LOW, and HIGH is carried only by results that did not come
\* from the call (the deterministic tier, an empty utterance).
C15_ConfidenceTagging ==
  (pout # None /\ pout[1].status = "done") =>
    /\ (pout[1].reply # None /\ pout[1].result.extracted_data # EmptyDict) =>
         (pout[1].result.confidence = "MEDIUM" /\ pout[1].result.llm_used)
    /\ (pout[1].reply # None /\ FailedReply(pout[1].reply[1])) =>
         pout[1].result.confidence = "LOW"
    /\ pout[1].result.confidence = "HIGH" => pout[1].reply = None

\* SanitizeSpec: the merged store of the call, request slots overlaid with
\* the response's extractedData.
SanMerged ==
  DictMerge(IF pin.slots = None THEN EmptyDict ELSE pin.slots[1],
            IF pin.response.extractedData = None THEN EmptyDict
            ELSE pin.response.extractedData[1])

\* The call has returned, for an agent of the catalog.
Sanitized == pout # None /\ pin.agent_type \in AgentKeys

\* The sanitized response asks, and its question is bound to the first
\* required slot that is not filled in the merged store.
SanAsksFirstMissing ==
  /\ pout[1].nextAction = "ASK_QUESTION"
  /\ pout[1].question # None
  /\ \E i \in Unfilled(AGENTS(pin.agent_type), SanMerged) :
       /\ FirstUnfilled(AGENTS(pin.agent_type), SanMerged, i)
       /\ pout[1].question[1].field = AGENTS(pin.agent_type).slots_in_order[i].name

\* The slots for which the response carries a filled value.
SanJustExtracted ==
  IF pin.response.extractedData = None THEN {}
  ELSE FilledNames(pin.response.extractedData[1])

\* C16: for a response CONFIRM with no confirmation card, sanitize returns
\* ASK_QUESTION; when a required slot is missing in the merged store the
\* question is bound to the first such slot, never to a slot the response
\* has just extracted, and with an empty store to the agent's first
\* required slot.
C16_ConfirmDowngrade ==
  (Sanitized /\ pin.response.nextAction = "CONFIRM"
             /\ pin.response.confirmationCard = None) =>
    /\ pout[1].nextAction = "ASK_QUESTION"
    /\ pout[1].confirmationCard = None
    /\ Unfilled(AGENTS(pin.agent_type), SanMerged) # {} =>
         /\ SanAsksFirstMissing
         /\ pout[1].question[1].field \notin SanJustExtracted
    /\ SanMerged = EmptyDict =>
         /\ pout[1].question # None
         /\ \E i \in 1..Len(AGENTS(pin.agent_type).slots_in_order) :
              /\ AGENTS(pin.agent_type).slots_in_order[i].required
              /\ \A j \in 1..(i - 1) : ~AGENTS(pin.agent_type).slots_in_order[j].required
              /\ pout[1].question[1].field = AGENTS(pin.agent_type).slots_in_order[i].name

\* C17: for a response FIND_PLACE with no placeSearchParams, sanitize returns
\* ASK_QUESTION without placeSearchParams; its question is bound to the first
\* required slot missing in the merged store, or, when none is missing, it
\* asks the generic fallback question.
C17_LookupDowngrade ==
  (Sanitized /\ pin.response.nextAction = "FIND_PLACE"
             /\ pin.response.placeSearchParams = None) =>
    /\ pout[1].nextAction = "ASK_QUESTION"
    /\ pout[1].placeSearchParams = None
    /\ IF Unfilled(AGENTS(pin.agent_type), SanMerged) # {}
       THEN SanAsksFirstMissing
       ELSE pout[1].assistantMessage = MSG_NEED_BUSINESS

\* C19: for a response ASK_QUESTION with no question, sanitize keeps
\* ASK_QUESTION; it generates a question for the first required slot missing
\* in the merged store when there is one, and leaves the question absent
\* otherwise.
C19_AskWithoutQuestion ==
  (Sanitized /\ pin.response.nextAction = "ASK_QUESTION"
             /\ pin.response.question = None) =>
    /\ pout[1].nextAction = "ASK_QUESTION"
    /\ IF Unfilled(AGENTS(pin.agent_type), SanMerged) # {}
       THEN SanAsksFirstMissing
       ELSE pout[1].question = None

\* The response carries the payload of its action and a question as well.
SanConflict ==
  /\ pin.response.question # None
  /\ \/ pin.response.nextAction = "FIND_PLACE" /\ pin.response.placeSearchParams # None
     \/ pin.response.nextAction = "CONFIRM" /\ pin.response.confirmationCard # None

\* C18: for a response FIND_PLACE with placeSearchParams, or CONFIRM with a
\* confirmation card, that also carries a question, sanitize keeps the
\* action and its payload and returns the response without the question.
C18_ConflictDropsQuestion ==
  (pout # None /\ SanConflict) =>
    /\ pout[1].nextAction = pin.response.nextAction
    /\ pout[1].question = None
    /\ pin.response.nextAction = "FIND_PLACE" =>
         pout[1].placeSearchParams = pin.response.placeSearchParams
    /\ pin.response.nextAction = "CONFIRM" =>
         pout[1].confirmationCard = pin.response.confirmationCard

\* C18 witness: a CONFIRM with its card and a question, on a store in which
\* a required slot is missing: the card is kept and the question has gone.
C18_Witness ==
  /\ pout # None
  /\ SanConflict
  /\ pin.agent_type \in AgentKeys
  /\ pin.response.nextAction = "CONFIRM"
  /\ Unfilled(AGENTS(pin.agent_type), SanMerged) # {}
  /\ pout[1].nextAction = "CONFIRM"
  /\ pout[1].confirmationCard = Some(SanCard)
  /\ pout[1].question = None

\* C20: the extractedData of the sanitized response is the merged store: it
\* has every key of the request's slots and every key of the response's
\* extractedData, with the extracted value on a key of both, whichever rule
\* was applied.
C20_ReturnsMergedStore ==
  pout # None =>
    LET slots == IF pin.slots = None THEN EmptyDict ELSE pin.slots[1]
        extracted == IF pin.response.extractedData = None THEN EmptyDict
                     ELSE pin.response.extractedData[1]
    IN /\ pout[1].extractedData # None
       /\ DOMAIN pout[1].extractedData[1] = (DOMAIN slots) \cup (DOMAIN extracted)
       /\ \A x \in DOMAIN extracted : pout[1].extractedData[1][x] = extracted[x]
       /\ \A x \in (DOMAIN slots) \ (DOMAIN extracted) :
            pout[1].extractedData[1][x] = slots[x]

\* C20 witness: the response extracts a slot the request's store holds with
\* another value, next to slots it does not touch, and an action is repaired.
C20_Witness ==
  /\ pout # None
  /\ pin.slots # None
  /\ pin.response.extractedData # None
  /\ pin.response.nextAction = "CONFIRM"
  /\ pin.response.confirmationCard = None
  /\ \E x \in (DOMAIN pin.slots[1]) \cap (DOMAIN pin.response.extractedData[1]) :
       /\ pin.slots[1][x] # pin.response.extractedData[1][x]
       /\ pout[1].extractedData[1][x] = pin.response.extractedData[1][x]
  /\ (DOMAIN pin.slots[1]) \ (DOMAIN pin.response.extractedData[1]) # {}
  /\ pout[1].nextAction = "ASK_QUESTION"

\* C21: the assistantMessage of the sanitized response is non-empty after
\* trimming, for every input response: a blank message has been replaced by
\* the text of the question the sanitized response carries, or by a generic
\* need-more-information message (the one of the LOOKUP downgrade included).
C21_MessageNeverBlank ==
  pout # None =>
    /\ ~BlankMessage(pout[1].assistantMessage)
    /\ BlankMessage(pin.response.assistantMessage) =>
         \/ pout[1].question # None /\ pout[1].assistantMessage = pout[1].question[1].text
         \/ pout[1].assistantMessage \in {MSG_NEED_MORE, MSG_NEED_BUSINESS}

\* The sanitized response of the same call with the action of the response
\* replaced by LOOKUP.
SanAsLookup ==
  sanitize_conversation_response([pin.response EXCEPT !.nextAction = "FIND_PLACE"],
                                 pin.agent_type, pin.slots)

\* C22: CONFIRM without a card is repaired exactly as LOOKUP without
\* parameters: on the same store, for two responses that differ in the action
\* only, the sanitized responses agree on action, question and assistant
\* message, with a required slot missing and with none missing.
C22_ConfirmRepairedAsLookup ==
  (/\ pout # None
   /\ pin.response.nextAction = "CONFIRM"
   /\ pin.response.confirmationCard = None
   /\ pin.response.placeSearchParams = None) =>
    /\ pout[1].nextAction = SanAsLookup.nextAction
    /\ pout[1].question = SanAsLookup.question
    /\ pout[1].assistantMessage = SanAsLookup.assistantMessage

LookupText(slots, designated, placeholder) ==
  IF designated # None /\ FilledIn(slots, designated[1])
  THEN PyToStr(slots[designated[1]])
  ELSE placeholder

C25_SickCallerQuery ==
  (/\ pout # None
   /\ pin.agent = "SICK_CALLER"
   /\ pin.client_action = None
   /\ pin.hint = Some("employer_phone")
   /\ pin.user_message \in LookupUtterances
   /\ FilledIn(pin.slots, "employer_name")) =>
    /\ pout[1].next_action = "FIND_PLACE"
    /\ pout[1].place_search_params # None
    /\ Contains(pout[1].place_search_params[1].query, PyToStr(pin.slots["employer_name"]))

\* C26: planner determinism.  A second call of decide_next_action with the
\* same agent, store, client_action, utterance and hint returns the same
\* result, card id included, whatever state outside the arguments (here the
\* string hash seed of the process that makes the call) it runs in.
C26_PlannerDeterminism ==
  pout # None =>
    \A seed \in Seeds :
       decide_next_action(AGENTS(pin.agent), pin.slots, pin.client_action,
                          pin.user_message, pin.hint, seed) = pout[1]

\* An entry of the cache that is younger than the TTL.
Young(k) == now - idem[k].timestamp < IDEMPOTENCY_TTL

\* The request of the turn that begins in this step.
BegunRequest ==
  IF Len(inflight') > Len(inflight) THEN inflight'[Len(inflight')].request
  ELSE last'[1].request

\* The turn that begins in this step is answered from the cache.
BegunFromCache ==
  /\ Len(inflight') = Len(inflight)
  /\ last'[1].outcome.path = "cached"

C27_Step ==
  /\ \A k \in DOMAIN idem : Young(k) => k \in DOMAIN idem'
  /\ (turns' = turns + 1 /\ Truthy(BegunRequest.idempotencyKey)) =>
       LET k == BegunRequest.idempotencyKey[1]
       IN /\ BegunFromCache <=> (k \in DOMAIN idem /\ Young(k))
          /\ BegunFromCache =>
               /\ last'[1].outcome.response = Some(idem[k].response)
               /\ idem' = idem
          /\ (k \in DOMAIN idem /\ ~Young(k)) =>
               /\ ~BegunFromCache
               /\ k \in DOMAIN idem' => idem'[k].timestamp = now

\* C27: idempotency expiry.  A turn is answered from the cache exactly when
\* the entry of its token is younger than the TTL of 5 minutes; a lookup at
\* or after expiry returns nothing, removes the entry, and the turn is
\* processed afresh; no step removes an entry younger than the TTL, the
\* pruning of a cache of more than 1000 entries included.
C27_IdempotencyExpiry == [][C27_Step]_vars

\* C27 witness: a turn came at or after the expiry of the entry of its
\* token and was processed afresh, its response stored anew; the cache has
\* been pruned of the earlier entries beyond the TTL and holds the young ones.
C27_Witness ==
  /\ last # None
  /\ \E e \in last[1].seen : last[1].begin - e.at >= IDEMPOTENCY_TTL
  /\ last[1].outcome.path \in {"normal", "confirm", "reject"}
  /\ "k1" \in DOMAIN idem
  /\ idem["k1"].timestamp >= last[1].begin
  /\ EarlierTokens(1, IDEMPOTENCY_MAX_ENTRIES \div 2) \cap DOMAIN idem = {}
  /\ EarlierTokens(IDEMPOTENCY_MAX_ENTRIES \div 2 + 1, IDEMPOTENCY_MAX_ENTRIES) \subseteq DOMAIN idem

\* The turn that ended last stored its response, and every response stored
\* under its token since its own cache check is that response.
C28_SameResponse ==
  (last # None /\ Stored(last[1].request, last[1].outcome)) =>
    \A e \in returned \ last[1].seen :
       e.key = last[1].request.idempotencyKey[1] =>
         e.response = last[1].outcome.response[1]

\* No step replaces the response of an entry younger than the TTL.
C28_NeverReplaced ==
  \A k \in (DOMAIN idem) \cap (DOMAIN idem') :
     Young(k) => idem'[k].response = idem[k].response

\* C28: idempotency under concurrency.  Two turns with the same token that
\* are in flight at the same time (the second checks the cache before the
\* first has stored) return the same response, and the entry of the token,
\* once written, is not replaced by another response.
C28_ConcurrentTurns == []C28_SameResponse /\ [][C28_NeverReplaced]_vars

\* A country-qualified canonical number: + and then digits, the country code first.
CanonicalNumber(text) ==
  /\ Len(text) >= 2
  /\ text[1] = "+"
  /\ \A i \in 2..Len(text) : IsDigit(text[i])

\* The hint of the call names a PHONE slot of the agent.
PhoneHint ==
  /\ pin.current_slot # None
  /\ pin.current_slot[1] \in PhoneSlots(AGENTS(pin.agent))

\* C29: the deterministic tier fills a PHONE slot only with a
\* country-qualified canonical number; for an utterance that does not
\* normalise to one it yields no value and extraction goes on to the
\* assisted tier.
C29_PhoneCanonicalOnly ==
  (pout # None /\ PhoneHint) =>
    /\ normalize_phone_number(pin.user_message) # None =>
         CanonicalNumber(normalize_phone_number(pin.user_message)[1])
    /\ (pout[1].status = "done" /\ pout[1].reply = None
        /\ pin.current_slot[1] \in DOMAIN pout[1].result.extracted_data) =>
         /\ pout[1].result.extracted_data[pin.current_slot[1]].k = "str"
         /\ CanonicalNumber(pout[1].result.extracted_data[pin.current_slot[1]].s)

\* The first position of a set of positions, as an Optional.
FirstOf(positions) ==
  IF positions = {} THEN None
  ELSE Some(CHOOSE i \in positions : \A j \in positions : i <= j)

\* The choice the tiers select for an utterance: the earliest exact value
\* match, else the earliest exact label match, else the earliest choice
\* whose label, less a leading "I'm" or "I am", is part of the utterance or
\* which has the utterance as a part of its label; all in lower case.
TieredChoice(user_message, choices) ==
  LET m == Strip(Lower(user_message))
      all == 1..Len(choices)
      Label(i) == Lower(choices[i].label)
      Clean(i) == Replace(Replace(Label(i), <<"i","'","m"," ">>, <<>>), <<"i"," ","a","m"," ">>, <<>>)
      by_value == {i \in all : m = Lower(choices[i].value)}
      by_label == {i \in all : m = Label(i)}
      by_part == {i \in all : Contains(m, Clean(i)) \/ Contains(Label(i), m)}
  IN IF by_value # {} THEN FirstOf(by_value)
     ELSE IF by_label # {} THEN FirstOf(by_label)
     ELSE FirstOf(by_part)

LookupAgents == {"STOCK_CHECKER", "RESTAURANT_RESERVATION", "CANCEL_APPOINTMENT"}

\* C39: the planner emits FIND_PLACE only when client_action is neither
\* CONFIRM nor REJECT and the hint names a PHONE slot the agent declares; the
\* three agents that declare no PHONE slot never get FIND_PLACE.
C39_LookupOnlyOnPhoneHint ==
  pout # None =>
    /\ pout[1].next_action = "FIND_PLACE" =>
         /\ pin.client_action \notin {Some("CONFIRM"), Some("REJECT")}
         /\ pin.hint # None
         /\ \E i \in 1..Len(AGENTS(pin.agent).slots_in_order) :
               /\ AGENTS(pin.agent).slots_in_order[i].name = pin.hint[1]
               /\ AGENTS(pin.agent).slots_in_order[i].input_type = "PHONE"
    /\ pin.agent \in LookupAgents =>
         /\ PhoneSlots(AGENTS(pin.agent)) = {}
         /\ pout[1].next_action # "FIND_PLACE"

\* C39 witness: an agent without a PHONE slot is asked its first slot and
\* the caller answers with a lookup phrase: the planner does not emit
\* FIND_PLACE.
C39_Witness ==
  /\ pout # None
  /\ pin.agent \in LookupAgents
  /\ pin.client_action = None
  /\ pin.hint = Some(AGENTS(pin.agent).slots_in_order[1].name)
  /\ pin.user_message = U_FIND
  /\ pout[1].next_action \in {"ASK_QUESTION", "CONFIRM"}

\* C36: the structure of every sanitized response: CONFIRM has its card and
\* no question, FIND_PLACE has its parameters and no question, and a card or
\* lookup parameters come with no other action.
C36_SanitizedStructure ==
  pout # None =>
    /\ pout[1].nextAction = "CONFIRM" =>
         pout[1].confirmationCard # None /\ pout[1].question = None
    /\ pout[1].nextAction = "FIND_PLACE" =>
         pout[1].placeSearchParams # None /\ pout[1].question = None
    /\ pout[1].confirmationCard # None => pout[1].nextAction = "CONFIRM"
    /\ pout[1].placeSearchParams # None => pout[1].nextAction = "FIND_PLACE"

\* C36 witness: a response that is no CONFIRM and no FIND_PLACE came with a
\* card and with lookup parameters: the sanitized response has neither.
C36_Witness ==
  /\ pout # None
  /\ pin.response.nextAction \in {"ASK_QUESTION", "COMPLETE"}
  /\ pin.response.confirmationCard # None
  /\ pin.response.placeSearchParams # None
  /\ pout[1].confirmationCard = None
  /\ pout[1].placeSearchParams = None

\* The name of the slot a next-missing computation selects, as an Optional.
LegacyNextName(agent_type, slots) ==
  IF get_next_missing_slot(agent_type, slots) = None THEN None
  ELSE Some(get_next_missing_slot(agent_type, slots)[1].field)

PlannerNextName(agent_type, slots) ==
  IF get_next_slot(AGENTS(agent_type), slots) = None THEN None
  ELSE Some(get_next_slot(AGENTS(agent_type), slots)[1].name)

\* C38: _get_next_missing_slot over REQUIRED_SLOTS_MAP and the planner's
\* get_next_slot over the catalog select the same slot name, or both nothing,
\* for every agent type and every store, the stores holding 0 or white space
\* included.
C38_LegacyAgreesWithPlanner ==
  (pout # None /\ pin.agent_type \in AgentKeys) =>
    LegacyNextName(pin.agent_type, SanMerged) = PlannerNextName(pin.agent_type, SanMerged)

\* Requests that carry token k and differ in conversation id, agent type,
\* client action and slot store.
RequestsUnder(k) ==
  {[ConversationRequest(agent, U_TEXT, slots, action, Some(k), None, FALSE)
      EXCEPT !.conversationId = cid] :
     agent \in AgentType, slots \in {EmptyDict, FullStore(SICK_CALLER_SPEC)},
     action \in {None, Some("CONFIRM"), Some("REJECT")}, cid \in {"c1", "c2"}}

\* Every request under a token whose entry is younger than the TTL is
\* answered with the entry's response, the cache left as it is.
C37_HitByTokenAndAge ==
  \A k \in DOMAIN idem :
    Young(k) =>
      \A rq \in RequestsUnder(k), fault \in BOOLEAN :
        LET r == process_begin(rq, openaiClient, idem, metrics, now, importOk,
                               intLimit, hashSeed, fault)
        IN /\ r.status = "done"
           /\ r.outcome.path = "cached"
           /\ r.outcome.response = Some(idem[k].response)
           /\ r.store = idem

\* A turn returns in this step.
TurnReturns ==
  \/ turns' = turns + 1 /\ Len(inflight') = Len(inflight)
  \/ Len(inflight') < Len(inflight)

\* A turn that returns on the CONFIRM, REJECT or normal path with a token
\* leaves its response under the token; a turn that returns the fallback
\* response or an error leaves no entry new or changed.
C37_StoredOnThreePaths ==
  TurnReturns =>
    LET rq == last'[1].request
        o == last'[1].outcome
    IN /\ (o.path \in {"confirm", "reject", "normal"} /\ Truthy(rq.idempotencyKey)) =>
            /\ rq.idempotencyKey[1] \in DOMAIN idem'
            /\ idem'[rq.idempotencyKey[1]] = [response |-> o.response[1], timestamp |-> now]
       /\ o.path \in {"fallback", "error"} =>
            \A k \in DOMAIN idem' : k \in DOMAIN idem /\ idem'[k] = idem[k]

\* C37: a cache hit depends only on the token and the age of the entry: the
\* cached response is returned as stored to a request with another
\* conversation id, agent type, client action or slot store (the slot store
\* returned is the first request's); a response is stored on the CONFIRM,
\* REJECT and normal paths only, never on the fallback or the error path.
C37_CacheKeyedByTokenOnly == []C37_HitByTokenAndAge /\ [][C37_StoredOnThreePaths]_vars

\* C37 witness: a CONFIRM turn with a full slot store was answered from the
\* cache with the response of an earlier turn, whose slot store is another.
C37_Witness ==
  /\ last # None
  /\ last[1].outcome.path = "cached"
  /\ last[1].request.clientAction = Some("CONFIRM")
  /\ last[1].outcome.response[1].extractedData # last[1].request.slots
  /\ last[1].outcome.response[1].nextAction # "COMPLETE"

\* The rank of a stage in the order of parsing.
StageRank(stage) ==
  CASE stage = "raw" -> 1 [] stage = "extract" -> 2 [] stage = "retry" -> 3
    [] stage = "fallback" -> 4

\* The call of get_next_turn ended with the fallback response.
EndedInFallback ==
  /\ pout # None
  /\ pout[1].state.pc = "done"
  /\ pout[1].state.stages[Len(pout[1].state.stages)] = "fallback"

\* C31: get_next_turn returns a response whatever the model gives back;
\* the stages come in the order direct parse, extraction from text, one
\* repair retry, fallback; there are at most two chat-completion calls; and
\* the fallback response is ASK_QUESTION bound to the first required slot
\* that is not filled in the request's slot store.
C31_NextTurnNeverRaises ==
  pout # None =>
    LET st == pout[1].state
        spec == AGENTS(pin.agent_type)
    IN /\ st.calls <= 2
       /\ st.pc = "done" => st.response # None
       /\ st.pc = "await" => st.calls = 1
       /\ \A i, j \in 1..Len(st.stages) :
            i < j => StageRank(st.stages[i]) < StageRank(st.stages[j])
       /\ EndedInFallback =>
            /\ st.response[1].nextAction = "ASK_QUESTION"
            /\ st.response[1].question # None
            /\ \A i \in 1..Len(spec.slots_in_order) :
                 FirstUnfilled(spec, pin.slots, i) =>
                   st.response[1].question[1].field = spec.slots_in_order[i].name

\* The items _sanitize_extracted_data was given, and the dict it returned.
GivenItems == IF pin.extracted_data = None THEN <<>> ELSE pin.extracted_data[1]
ReturnedDict == IF pout[1] = None THEN EmptyDict ELSE pout[1][1]

\* A value that is null or the empty string.
NullOrEmpty(value) == value = PyNone \/ value = PyStr(<<>>)

\* The last-asked slot name is a known slot of the agent.
RepairTarget ==
  /\ pin.last_question_field # None
  /\ pin.last_question_field[1] \in KNOWN_SLOT_KEYS(pin.agent_type)

\* C32: every key of the output of _sanitize_extracted_data is a known slot
\* key of the agent; a known key is kept with its value; a generic key is
\* remapped to the last-asked slot name when that is a known slot and
\* dropped otherwise; an unknown key is dropped; entries whose value is null
\* or empty are dropped; the result is None when nothing remains.
C32_InvalidKeyRepair ==
  pout # None =>
    LET known == KNOWN_SLOT_KEYS(pin.agent_type)
        kept == {i \in 1..Len(GivenItems) : ~NullOrEmpty(GivenItems[i].value)}
    IN /\ DOMAIN ReturnedDict \subseteq known
       /\ \A i \in kept :
            GivenItems[i].key \in known =>
              /\ GivenItems[i].key \in DOMAIN ReturnedDict
              /\ ReturnedDict[GivenItems[i].key] = GivenItems[i].value
       /\ \A i \in kept :
            (GivenItems[i].key \in INVALID_SLOT_KEYS /\ RepairTarget) =>
              pin.last_question_field[1] \in DOMAIN ReturnedDict
       /\ \A k \in DOMAIN ReturnedDict :
            /\ ~NullOrEmpty(ReturnedDict[k])
            /\ \E i \in kept :
                 /\ GivenItems[i].value = ReturnedDict[k]
                 /\ \/ GivenItems[i].key = k
                    \/ /\ GivenItems[i].key \in INVALID_SLOT_KEYS
                       /\ RepairTarget
                       /\ pin.last_question_field[1] = k
       /\ pout[1] # Some(EmptyDict)

\* What the callee's reply is detected as: pass-on first, then NO, then YES.
DetectedAs(speech) ==
  LET s == Strip(Lower(speech))
  IN IF AnyIn(s, PASS_ON_PHRASES) THEN "PASS_ON"
     ELSE IF AnyIn(s, NEGATIVE_ANSWERS) THEN "NO"
     ELSE IF AnyIn(s, POSITIVE_ANSWERS) THEN "YES"
     ELSE "UNCLEAR"

PollDelivers ==
  /\ pout[1].tw.next = "poll"
  /\ pout'[1].tw # pout[1].tw
  /\ pout'[1].twiml # "cap_hangup"
  /\ pout[1].run.pending_agent_reply # None

C34_Step ==
  pout[1].run.is_terminal =>
    /\ pout'[1].run.is_terminal
    /\ PollDelivers => pout'[1].twiml = "say_hangup"
    /\ turns' = turns + 1 => pout'[1].twiml = "hangup"

\* C34: once response generation has marked the call run terminal, no later
\* webhook resets is_terminal; the /twilio/poll that delivers that reply
\* answers Say and Hangup without Gather, and every later /twilio/gather
\* answers Hangup only.
C34_TerminalIsPermanent == [][C34_Step]_vars

\* C35: after /twilio/gather has redirected to /twilio/poll, the chain of
\* poll requests ends, by delivering the pending reply or by hanging up when
\* the hard cap of 20 seconds is exceeded, whatever becomes of the
\* background task.
C35_PollingTerminates ==
  (pout[1].tw.next = "poll") ~> (pout[1].tw.next \in {"gather", "ended"})

\* C35 witness: the chat-completion call did not return, the chain of polls
\* went on beyond the hard cap and the poll hung up.
C35_Witness ==
  /\ pout[1].twiml = "cap_hangup"
  /\ pout[1].tw.next = "ended"
  /\ pout[1].running # None
  /\ now - pout[1].run.pending_started_at[1] > POLL_HARD_CAP

====
